---- MODULE Spec2Model ----
(***************************************************************************)
(* Verification model of the agent router (sjarmak/agent-skills,           *)
(* router-service): the rule-based classifier, the specialized-task        *)
(* detector, the agent selector and the installed-agents cache of          *)
(* classifier.py, and the selector and /route endpoint of router.py.       *)
(*                                                                         *)
(* Python floats are IEEE-754 binary64.  They are modelled exactly: a      *)
(* float is a sign and a magnitude counted in units of 2^-60, held in      *)
(* three limbs of 20 bits, and every arithmetic result is rounded to 53    *)
(* significant bits, ties to even, as the hardware does.                   *)
(* Python strings are TLA+ strings; "kw in s" is substring membership.     *)
(***************************************************************************)
EXTENDS Integers, Sequences, FiniteSets, TLC

(***************************************************************************)
(* binary64 arithmetic                                                     *)
(***************************************************************************)
Limb == 2 ^ 20

MantTop == 2 ^ 13

MagZero == <<0, 0, 0>>

MagNorm(a, b, c) ==
    LET b1 == b + (c \div Limb)
        a1 == a + (b1 \div Limb)
    IN  <<a1, b1 % Limb, c % Limb>>

MagAdd(m, n) == MagNorm(m[1] + n[1], m[2] + n[2], m[3] + n[3])

MagSub(m, n) == MagNorm(m[1] - n[1], m[2] - n[2], m[3] - n[3])

MagMulInt(m, k) == MagNorm(m[1] * k, m[2] * k, m[3] * k)

MagLess(m, n) ==
    \/ m[1] < n[1]
    \/ m[1] = n[1] /\ m[2] < n[2]
    \/ m[1] = n[1] /\ m[2] = n[2] /\ m[3] < n[3]

\* number of low bits a magnitude with top limb a loses when it is rounded
\* to 53 significant bits
DropBits(a) == IF a < MantTop THEN 0
               ELSE CHOOSE k \in 1..18 : a >= MantTop * 2 ^ (k - 1) /\ a < MantTop * 2 ^ k

\* round the exact value m + r/d (0 <= r < d) to 53 significant bits,
\* round-half-to-even
Round53(m, r, d) ==
    LET k    == DropBits(m[1])
        unit == 2 ^ k
        low  == m[3] % unit
        odd  == (m[3] \div unit) % 2 = 1
        \* twice the discarded part against one unit: 2*(low + r/d) ? unit
        up   == \/ 2 * low > unit
                \/ 2 * low = unit /\ (r > 0 \/ odd)
                \/ k = 0 /\ (2 * r > d \/ (2 * r = d /\ odd))
        down == MagNorm(m[1], m[2], m[3] - low)
    IN  IF up THEN MagNorm(down[1], down[2], down[3] + unit) ELSE down

\* the float a decimal literal with two decimals denotes: p/100 correctly
\* rounded (p >= 0)
Lit(p) ==
    LET a0 == p * 2 ^ 18
        q1 == a0 \div 25
        r1 == a0 % 25
        q2 == (r1 * Limb) \div 25
        r2 == (r1 * Limb) % 25
        q3 == (r2 * Limb) \div 25
        r3 == (r2 * Limb) % 25
    IN  [neg |-> FALSE, m |-> Round53(MagNorm(q1, q2, q3), r3, 25)]

FZero == [neg |-> FALSE, m |-> MagZero]

FAdd(x, y) ==
    IF x.neg = y.neg
    THEN [neg |-> x.neg, m |-> Round53(MagAdd(x.m, y.m), 0, 1)]
    ELSE IF x.m = y.m THEN FZero
    ELSE IF MagLess(x.m, y.m)
         THEN [neg |-> y.neg, m |-> Round53(MagSub(y.m, x.m), 0, 1)]
         ELSE [neg |-> x.neg, m |-> Round53(MagSub(x.m, y.m), 0, 1)]

FNeg(x) == IF x.m = MagZero THEN x ELSE [neg |-> ~x.neg, m |-> x.m]

FSub(x, y) == FAdd(x, FNeg(y))

\* float * int (the int converts exactly), k >= 0
FMulInt(x, k) == IF k = 0 THEN FZero
                 ELSE [neg |-> x.neg, m |-> Round53(MagMulInt(x.m, k), 0, 1)]

FLess(x, y) ==
    IF x.neg /\ ~y.neg THEN x.m # MagZero \/ y.m # MagZero
    ELSE IF ~x.neg /\ y.neg THEN FALSE
    ELSE IF x.neg THEN MagLess(y.m, x.m)
    ELSE MagLess(x.m, y.m)

\* Python min(x, y) and max(x, y)
FMin(x, y) == IF FLess(y, x) THEN y ELSE x

FMax(x, y) == IF FLess(x, y) THEN y ELSE x

\* Python round(x, 2) of a float x >= 0, as a number of hundredths: the
\* exact binary value is rounded to two decimals, half to even
Round2(x) ==
    LET p    == MagMulInt(x.m, 100)
        q    == p[1] \div Limb
        rem  == <<p[1] % Limb, p[2], p[3]>>
        half == <<Limb \div 2, 0, 0>>
    IN  IF MagLess(half, rem) \/ (rem = half /\ q % 2 = 1) THEN q + 1 ELSE q

(***************************************************************************)
(* Python string operations                                                *)
(***************************************************************************)
\* Python None where the other values are strings
None == "None"

\* Python None where the other values are dicts
NoneObj == [none |-> TRUE]

Min(a, b) == IF a < b THEN a ELSE b

UpperLetters == "ABCDEFGHIJKLMNOPQRSTUVWXYZ"

LowerLetters == "abcdefghijklmnopqrstuvwxyz"

Char(s, i) == SubSeq(s, i, i)

LowerChar(c) == IF \E i \in 1..Len(UpperLetters) : Char(UpperLetters, i) = c
                THEN Char(LowerLetters, CHOOSE i \in 1..Len(UpperLetters) : Char(UpperLetters, i) = c)
                ELSE c

\* s.lower(): low[<<i, n>>] is the lowered piece of n characters from
\* position i, put together from its two halves
Lower(s) ==
    LET low[r \in (1..(Len(s) + 1)) \X (0..Len(s))] ==
            IF r[2] = 0 THEN ""
            ELSE IF r[2] = 1 THEN LowerChar(Char(s, r[1]))
            ELSE low[<<r[1], r[2] \div 2>>] \o low[<<r[1] + r[2] \div 2, r[2] - r[2] \div 2>>]
    IN  low[<<1, Len(s)>>]

UpperChar(c) == IF \E i \in 1..Len(LowerLetters) : Char(LowerLetters, i) = c
                THEN Char(UpperLetters, CHOOSE i \in 1..Len(LowerLetters) : Char(LowerLetters, i) = c)
                ELSE c

\* s.capitalize() of a non-empty string
Capitalize(s) == UpperChar(Char(s, 1)) \o Lower(SubSeq(s, 2, Len(s)))

\* every keyword of the tables fits in this many characters
MaxKeywordLen == Len("design the implementation")

\* all substrings of s that a keyword can equal: "kw in s" is kw \in Substrings(s)
Substrings(s) ==
    {""} \cup UNION {{SubSeq(s, i, i + l - 1) : l \in 1..Min(MaxKeywordLen, Len(s) - i + 1)} : i \in 1..Len(s)}

\* sum(1 for kw in kws if kw in s)
CountIn(kws, subs) == Cardinality({i \in 1..Len(kws) : kws[i] \in subs})

\* any(kw in s for kw in kws)
AnyIn(kws, subs) == \E i \in 1..Len(kws) : kws[i] \in subs

\* [kw for kw in kws if kw in s]
Matching(kws, subs) == SelectSeq(kws, LAMBDA kw : kw \in subs)

\* s.startswith(q)
StartsWith(s, q) == Len(q) <= Len(s) /\ SubSeq(s, 1, Len(q)) = q

\* the start positions of the occurrences of k in s
Pos(s, k) == {i \in 1..(Len(s) - Len(k) + 1) : SubSeq(s, i, i + Len(k) - 1) = k}

\* s.count(k): the occurrences are taken left to right and an occurrence that
\* overlaps the one taken before it is skipped; free[j] is the first position
\* not covered after the j smallest occurrences, taken[j] how many were taken
StrCount(s, k) ==
    LET at     == Pos(s, k)
        nth(j) == CHOOSE i \in at : Cardinality({x \in at : x < i}) = j - 1
        scan[j \in 0..Cardinality(at)] ==
            IF j = 0 THEN [taken |-> 0, free |-> 1]
            ELSE IF nth(j) >= scan[j - 1].free
                 THEN [taken |-> scan[j - 1].taken + 1, free |-> nth(j) + Len(k)]
                 ELSE scan[j - 1]
    IN  scan[Cardinality(at)].taken

Whitespace == {" ", "\n", "\t"}

IsSpace(s, i) == Char(s, i) \in Whitespace

\* s.split(): the maximal runs of non-whitespace characters, in order
WordStarts(s) == {i \in 1..Len(s) : ~IsSpace(s, i) /\ (i = 1 \/ IsSpace(s, i - 1))}

\* the last character of the word that starts at i
WordEnd(s, i) ==
    CHOOSE j \in i..Len(s) :
        /\ j = Len(s) \/ IsSpace(s, j + 1)
        /\ \A t \in i..j : ~IsSpace(s, t)

Split(s) == [i \in WordStarts(s) |-> SubSeq(s, i, WordEnd(s, i))]

\* w.rstrip(chars): w up to its last character that is not in chars
RStrip(w, chars) ==
    LET keep == {i \in 1..Len(w) : Char(w, i) \notin chars}
    IN  IF keep = {} THEN ""
        ELSE SubSeq(w, 1, CHOOSE i \in keep : \A j \in keep : j <= i)

\* re.search(a + ".*" + b, s): "." matches any character but a newline
SearchDotStar(s, a, b) ==
    \E i \in Pos(s, a) : \E j \in Pos(s, b) :
        /\ j >= i + Len(a)
        /\ \A t \in (i + Len(a))..(j - 1) : Char(s, t) # "\n"

(***************************************************************************)
(* classifier.py: keyword tables of classify_prompt and                    *)
(* detect_specialized_task                                                 *)
(***************************************************************************)
supporting_context ==
    <<"codebase", "project", "repo", "module", "component", "system", "authentication",
      "api", "database", "service", "handler">>

research_keywords ==
    <<"research", "explore", "investigate", "find all", "search for", "look for",
      "identify", "discover", "locate", "where is", "how is", "understand how",
      "learn about", "analyze", "find patterns", "scan", "survey", "examine all", "across",
      "throughout", "in the codebase", "in the repo", "search the", "look through",
      "examine", "study", "inspect">>

research_code_context ==
    <<"codebase", "repo", "files", "modules", "code", "implementation", "across",
      "throughout", "all", "entire", "whole", "project">>

review_keywords ==
    <<"review", "audit", "check for", "look for issues", "security review", "code review",
      "pr review", "pull request", "vulnerability", "best practices", "code quality">>

debug_keywords ==
    <<"fix", "bug", "debug", "error", "broken", "failing", "crash", "exception",
      "traceback", "doesn't work", "not working", "wrong output", "unexpected", "fault",
      "defect">>

explain_keywords ==
    <<"explain", "what does", "how does", "understand", "walk through", "describe",
      "what is", "tell me about", "how is", "why does", "meaning of", "purpose of">>

explain_code_context ==
    <<"code", "function", "class", "module", "method", "variable", "algorithm", "pattern",
      "regex", "database", "connection", "api", "endpoint", "server", "client", "request",
      "response", "query", "cache", "pool", "thread", "process", "async", ".py", ".js",
      ".ts", ".go", ".rs", ".java", ".cpp", "this file", "this code", "the code",
      "this script">>

refactor_keywords ==
    <<"refactor", "restructure", "reorganize", "clean up", "improve", "optimize",
      "simplify", "modernize", "convert to", "migrate", "upgrade", "rewrite">>

gen_keywords ==
    <<"write", "create", "implement", "build", "add", "generate", "make", "develop",
      "set up", "scaffold", "bootstrap">>

gen_context ==
    <<"function", "class", "api", "endpoint", "module", "script", "component", "service",
      "handler", "test", "interface", "method", "route", "middleware", "hook", "util">>

summary_keywords ==
    <<"summarize", "summary", "overview", "tldr", "brief", "recap", "key points",
      "main points", "gist">>

math_keywords ==
    <<"calculate", "compute", "algorithm", "complexity", "big o", "formula", "equation",
      "fibonacci", "sort", "search", "optimize", "efficient">>

question_words ==
    <<"what", "why", "how", "when", "where", "which", "can">>

high_complexity ==
    <<"complex", "advanced", "sophisticated", "comprehensive", "full", "complete",
      "production", "enterprise", "scalable", "distributed", "concurrent", "async",
      "parallel">>

low_complexity ==
    <<"simple", "basic", "quick", "small", "tiny", "minimal", "just", "only", "single",
      "one">>

numbered_tokens ==
    <<"1", "2", "3", "4", "5", "first", "second", "third">>

tech_depth ==
    <<"authentication", "authorization", "oauth", "jwt", "encryption", "database",
      "caching", "queue", "websocket", "graphql", "grpc", "kubernetes", "docker",
      "terraform", "cicd", "pipeline", "microservice", "architecture", "design pattern",
      "solid", "transaction", "rollback", "migration", "schema">>

multi_file ==
    <<"multiple files", "several files", "across", "entire", "whole codebase", "all files",
      "project-wide", "repo">>

research_scope ==
    <<"entire", "whole", "all", "every", "across", "throughout", "complete",
      "comprehensive", "full", "codebase", "repo">>

\* each r"a.*b" pattern as the pair of its literal parts
exploration_patterns ==
    <<<<"how does ", " work">>, <<"where ", " implemented">>, <<"find ", " usage">>,
      <<"search ", " for">>, <<"look ", " across">>, <<"identify all ", "">>,
      <<"list all ", "">>, <<"show ", " across">>, <<"find all ", " in">>>>

(***************************************************************************)
(* classifier.py: classify_prompt, the task-type cascade.  The cascade     *)
(* state st is the triple of locals task_type, confidence, signals.        *)
(***************************************************************************)
Fired(st, task_type, confidence, signal) ==
    [task_type |-> task_type, confidence |-> confidence, signals |-> Append(st.signals, signal)]

\* min(0.7 + (matches * 0.05), 0.95)
KeywordConfidence(matches) == FMin(FAdd(Lit(70), FMulInt(Lit(5), matches)), Lit(95))

ResearchRule(st, prompt_lower, subs) ==
    LET research_matches == CountIn(research_keywords, subs)
        pattern_matches  ==
            Cardinality({i \in 1..Len(exploration_patterns) :
                SearchDotStar(prompt_lower, exploration_patterns[i][1], exploration_patterns[i][2])})
    IN  IF research_matches >= 2 \/ pattern_matches >= 1
        THEN Fired(st, "research",
                   FMin(FAdd(FAdd(Lit(80), FMulInt(Lit(3), research_matches)),
                             FMulInt(Lit(5), pattern_matches)), Lit(95)),
                   "research_keywords:" \o ToString(research_matches)
                       \o ",patterns:" \o ToString(pattern_matches))
        ELSE IF research_matches = 1 /\ AnyIn(research_code_context, subs)
        THEN Fired(st, "research", Lit(75), "research_keywords:1,code_context")
        ELSE st

ReviewRule(st, subs) ==
    LET review_matches == CountIn(review_keywords, subs)
    IN  IF st.task_type = None /\ review_matches > 0
        THEN Fired(st, "code_review", KeywordConfidence(review_matches),
                   "review_keywords:" \o ToString(review_matches))
        ELSE st

\* the debugging rule if it did not test that no rule had fired
DebugRuleUnguarded(st, subs) ==
    LET debug_matches == CountIn(debug_keywords, subs)
    IN  IF debug_matches > 0
        THEN Fired(st, "code_debugging", KeywordConfidence(debug_matches),
                   "debug_keywords:" \o ToString(debug_matches))
        ELSE st

DebugRule(st, subs) ==
    LET debug_matches == CountIn(debug_keywords, subs)
    IN  IF st.task_type = None /\ debug_matches > 0
        THEN Fired(st, "code_debugging", KeywordConfidence(debug_matches),
                   "debug_keywords:" \o ToString(debug_matches))
        ELSE st

ExplainRule(st, prompt, subs) ==
    LET code_context    == AnyIn(explain_code_context, subs)
        explain_matches == CountIn(explain_keywords, subs)
    IN  IF st.task_type = None /\ explain_matches > 0 /\ (code_context \/ Pos(prompt, "?") # {})
        THEN Fired(st, "code_explanation", KeywordConfidence(explain_matches),
                   "explain_keywords:" \o ToString(explain_matches))
        ELSE st

RefactorRule(st, subs) ==
    LET refactor_matches == CountIn(refactor_keywords, subs)
    IN  IF st.task_type = None /\ refactor_matches > 0
        THEN Fired(st, "rewrite", KeywordConfidence(refactor_matches),
                   "refactor_keywords:" \o ToString(refactor_matches))
        ELSE st

\* the generation rule if it had no branch for two action keywords
GenerationRuleBothOnly(st, subs) ==
    LET gen_matches     == CountIn(gen_keywords, subs)
        context_matches == CountIn(gen_context, subs)
    IN  IF st.task_type = None /\ gen_matches > 0 /\ context_matches > 0
        THEN Fired(st, "code_generation",
                   FMin(FAdd(FAdd(Lit(70), FMulInt(Lit(3), gen_matches)),
                             FMulInt(Lit(3), context_matches)), Lit(95)),
                   "gen_keywords:" \o ToString(gen_matches)
                       \o ",context:" \o ToString(context_matches))
        ELSE st

GenerationRule(st, subs) ==
    LET gen_matches     == CountIn(gen_keywords, subs)
        context_matches == CountIn(gen_context, subs)
    IN  IF st.task_type # None THEN st
        ELSE IF gen_matches > 0 /\ context_matches > 0
        THEN Fired(st, "code_generation",
                   FMin(FAdd(FAdd(Lit(70), FMulInt(Lit(3), gen_matches)),
                             FMulInt(Lit(3), context_matches)), Lit(95)),
                   "gen_keywords:" \o ToString(gen_matches)
                       \o ",context:" \o ToString(context_matches))
        ELSE IF gen_matches >= 2
        THEN Fired(st, "code_generation", Lit(70), "gen_keywords:" \o ToString(gen_matches))
        ELSE st

SummaryRule(st, subs) ==
    IF st.task_type = None /\ AnyIn(summary_keywords, subs)
    THEN Fired(st, "summarization", Lit(80), "summary_keywords")
    ELSE st

MathRule(st, subs) ==
    IF st.task_type = None /\ AnyIn(math_keywords, subs)
    THEN Fired(st, "math", Lit(75), "math_keywords")
    ELSE st

OpenQARule(st, prompt, prompt_lower) ==
    IF /\ st.task_type = None
       /\ \/ Pos(prompt, "?") # {}
          \/ \E i \in 1..Len(question_words) : StartsWith(prompt_lower, question_words[i])
    THEN Fired(st, "open_qa", Lit(60), "question_pattern")
    ELSE st

\* the cascade if it had no default rule
NoDefaultRule(st) == st

DefaultRule(st) ==
    IF st.task_type = None THEN Fired(st, "code_generation", Lit(50), "default") ELSE st

CascadeStart == [task_type |-> None, confidence |-> Lit(50), signals |-> <<>>]

\* the rules shared by classifier.classify_prompt and router._rule_based_classify
CommonCascade(st, prompt, prompt_lower, subs) ==
    DefaultRule(OpenQARule(MathRule(SummaryRule(GenerationRule(RefactorRule(
        ExplainRule(DebugRule(ReviewRule(st, subs), subs), prompt, subs),
        subs), subs), subs), subs), prompt, prompt_lower))

(***************************************************************************)
(* classifier.py: classify_prompt, the complexity estimator.  The          *)
(* estimator state c is the pair of locals complexity_score,               *)
(* complexity_signals.                                                     *)
(***************************************************************************)
Bump(c, delta, signal) ==
    [score |-> FAdd(c.score, delta), signals |-> Append(c.signals, signal)]

WordCount(prompt_lower) == Cardinality(DOMAIN Split(prompt_lower))

LengthSignal(c, word_count) ==
    IF word_count > 150 THEN Bump(c, Lit(30), "very_long")
    ELSE IF word_count > 75 THEN Bump(c, Lit(20), "long")
    ELSE IF word_count > 30 THEN Bump(c, Lit(10), "medium")
    ELSE [c EXCEPT !.signals = Append(@, "short")]

HighSignal(c, high_matches) ==
    IF high_matches > 0
    THEN Bump(c, FMulInt(Lit(15), high_matches), "high_kw:" \o ToString(high_matches))
    ELSE c

LowSignal(c, low_matches) ==
    IF low_matches > 0
    THEN Bump(c, FNeg(FMulInt(Lit(10), low_matches)), "low_kw:" \o ToString(low_matches))
    ELSE c

\* and_count + bullet_count + numbered; the prompts of the model are ASCII, so
\* the third bullet marker (U+2022) does not occur in them
MultiReq(prompt, prompt_lower) ==
    LET words       == Split(prompt_lower)
        and_count    == StrCount(prompt_lower, " and ")
        bullet_count == StrCount(prompt, "- ") + StrCount(prompt, "* ")
        numbered     == Cardinality({i \in DOMAIN words :
                            \E t \in 1..Len(numbered_tokens) :
                                RStrip(words[i], {".", ")", ":"}) = numbered_tokens[t]})
    IN  and_count + bullet_count + numbered

MultiReqSignal(c, multi_req) ==
    IF multi_req > 3 THEN Bump(c, Lit(25), "multi_req:" \o ToString(multi_req))
    ELSE IF multi_req > 1 THEN Bump(c, Lit(15), "multi_req:" \o ToString(multi_req))
    ELSE c

DepthSignal(c, depth_matches) ==
    IF depth_matches > 2 THEN Bump(c, Lit(20), "tech_depth:" \o ToString(depth_matches))
    ELSE IF depth_matches > 0 THEN Bump(c, Lit(10), "tech_depth:" \o ToString(depth_matches))
    ELSE c

MultiFileSignal(c, any_multi_file) ==
    IF any_multi_file THEN Bump(c, Lit(15), "multi_file") ELSE c

\* the scope signal if it were added whatever the task type
ScopeSignalAnyTask(c, task_type, scope_matches) ==
    IF scope_matches >= 2 THEN Bump(c, Lit(20), "research_scope:" \o ToString(scope_matches))
    ELSE IF scope_matches = 1 THEN Bump(c, Lit(10), "research_scope:" \o ToString(scope_matches))
    ELSE c

ResearchScopeSignal(c, task_type, scope_matches) ==
    IF task_type # "research" THEN c
    ELSE IF scope_matches >= 2 THEN Bump(c, Lit(20), "research_scope:" \o ToString(scope_matches))
    ELSE IF scope_matches = 1 THEN Bump(c, Lit(10), "research_scope:" \o ToString(scope_matches))
    ELSE c

\* the score if it were offset and not clamped
Unclamped(score) == FAdd(score, Lit(30))

\* the score if it were clamped without the base offset
NoOffset(score) == FMax(Lit(10), FMin(Lit(95), score))

\* max(0.1, min(0.95, complexity_score + 0.3))
Normalize(score) == FMax(Lit(10), FMin(Lit(95), FAdd(score, Lit(30))))

Bucket(score) ==
    IF FLess(score, Lit(35)) THEN "simple"
    ELSE IF FLess(score, Lit(65)) THEN "moderate"
    ELSE "complex"

\* signals 1 to 5, shared by classify_prompt and router._rule_based_classify
CommonSignals(prompt, prompt_lower, subs) ==
    MultiFileSignal(
      DepthSignal(
        MultiReqSignal(
          LowSignal(
            HighSignal(
              LengthSignal([score |-> FZero, signals |-> <<>>], WordCount(prompt_lower)),
              CountIn(high_complexity, subs)),
            CountIn(low_complexity, subs)),
          MultiReq(prompt, prompt_lower)),
        CountIn(tech_depth, subs)),
      AnyIn(multi_file, subs))

Classification(st, c) ==
    LET complexity_score == Normalize(c.score)
    IN  [task_type            |-> st.task_type,
         task_type_confidence |-> Round2(st.confidence),
         complexity           |-> Bucket(complexity_score),
         complexity_score     |-> Round2(complexity_score),
         all_scores           |-> [classifier         |-> "rule_based_v2",
                                   task_signals       |-> st.signals,
                                   complexity_signals |-> c.signals]]

classify_prompt(prompt) ==
    LET prompt_lower == Lower(prompt)
        subs         == Substrings(prompt_lower)
        st           == CommonCascade(ResearchRule(CascadeStart, prompt_lower, subs),
                                      prompt, prompt_lower, subs)
        c            == ResearchScopeSignal(CommonSignals(prompt, prompt_lower, subs),
                                            st.task_type, CountIn(research_scope, subs))
    IN  Classification(st, c)

\* router.py: _rule_based_classify, the same cascade and estimator without
\* the research rule and the research-scope signal
rule_based_classify(prompt) ==
    LET prompt_lower == Lower(prompt)
        subs         == Substrings(prompt_lower)
        st           == CommonCascade(CascadeStart, prompt, prompt_lower, subs)
        c            == CommonSignals(prompt, prompt_lower, subs)
    IN  Classification(st, c)

(***************************************************************************)
(* classifier.py: the capability registry and the specialized-task table   *)
(* (both dicts iterate in declaration order)                               *)
(***************************************************************************)
AgentOrder == <<"codex", "cursor", "gemini", "copilot">>

AGENT_CAPABILITIES ==
    "codex" :> [strengths |-> <<"misc_coding", "algorithms", "math", "utility_scripts">>,
        complexity_preference |-> "any",
        description |-> "OpenAI Codex CLI - versatile for misc coding tasks with adjustable reasoning",
        speed |-> "medium",
        cost |-> "medium",
        cli_command |-> "codex",
        modes |-> [default |-> None, high_reasoning |-> "--reasoning high", medium_reasoning |-> "--reasoning medium"],
        models |-> [simple |-> "gpt-5.2-codex", moderate |-> "gpt-5.2-codex", complex |-> "gpt-5.2-codex"],
        reasoning_by_complexity |-> [simple |-> "medium", moderate |-> "medium", complex |-> "high"]]
    @@
    "cursor" :> [strengths |-> <<"planning", "architecture", "refactoring", "code_debugging", "code_review",
                     "rewrite">>,
        complexity_preference |-> "moderate",
        description |-> "Cursor AI - best for planning, architecture, debugging, and repo-aware refactoring",
        speed |-> "medium",
        cost |-> "medium",
        cli_command |-> "agent",
        modes |-> [plan |-> "--mode plan", agent |-> "--mode agent", ask |-> "--mode ask"],
        models |-> [simple |-> "gpt-4o", moderate |-> "claude-sonnet-4.5", complex |-> "claude-opus-4.5"]]
    @@
    "gemini" :> [strengths |-> <<"code_generation", "research", "documentation", "open_qa", "summarization",
                     "brainstorm", "code_explanation", "text_generation">>,
        complexity_preference |-> "any",
        description |-> "Gemini CLI - primary for code generation, research, documentation, and analysis",
        speed |-> "fast",
        cost |-> "low",
        cli_command |-> "gemini",
        modes |-> [read |-> None, edit |-> "--yolo"],
        models |-> [simple |-> "gemini-3-pro", moderate |-> "gemini-3-pro", complex |-> "gemini-3-pro"]]
    @@
    "copilot" :> [strengths |-> <<"complex_analysis", "deep_reasoning", "security_analysis",
                     "architectural_review">>,
        complexity_preference |-> "complex",
        description |-> "GitHub Copilot CLI - Opus specialist for complex reasoning and deep analysis",
        speed |-> "slow",
        cost |-> "high",
        cli_command |-> "copilot",
        modes |-> [default |-> None, edit |-> "--allow-all-paths"],
        models |-> [simple |-> "claude-opus-4.5", moderate |-> "claude-opus-4.5", complex |-> "claude-opus-4.5"]]

\* the rules in declaration order; confidence_boost in hundredths, 0 where
\* the rule has none (task_config.get("confidence_boost", 0))
SPECIALIZED_TASKS ==
    <<
     [name |-> "planning",
      keywords |-> <<"plan the", "plan for", "create a plan", "implementation plan",
                      "design the implementation", "how should we implement", "strategy for",
                      "outline the approach", "roadmap for", "plan implementation">>,
      single_match_keywords |-> <<"plan the", "create a plan", "implementation plan">>,
      agent |-> "cursor",
      mode |-> "plan",
      model_tier |-> "complex",
      confidence_boost |-> 0,
      reasoning |-> "Cursor's plan mode provides structured implementation planning"],
     [name |-> "architecture",
      keywords |-> <<"architect", "system design", "design the architecture", "database schema",
                      "api design", "data model", "microservice", "infrastructure design",
                      "scalability design", "system architecture">>,
      single_match_keywords |-> <<"system design", "database schema", "api design", "system architecture">>,
      agent |-> "cursor",
      mode |-> "plan",
      model_tier |-> "complex",
      confidence_boost |-> 0,
      reasoning |-> "Cursor excels at multi-file architectural analysis"],
     [name |-> "code_review",
      keywords |-> <<"review the", "review this", "code review", "audit the", "check for issues",
                      "pr review", "review changes", "review my code", "review staged">>,
      single_match_keywords |-> <<"code review", "pr review", "review staged">>,
      agent |-> "cursor",
      mode |-> "ask",
      model_tier |-> "complex",
      confidence_boost |-> 0,
      reasoning |-> "Cursor's ask mode for thorough code quality review"],
     [name |-> "security_review",
      keywords |-> <<"security review", "security audit", "check for vulnerabilities",
                      "security analysis", "penetration test", "vulnerability scan",
                      "security assessment", "threat model">>,
      single_match_keywords |-> <<"security review", "security audit", "vulnerability scan">>,
      agent |-> "copilot",
      mode |-> "default",
      model_tier |-> "complex",
      confidence_boost |-> 0,
      reasoning |-> "Copilot with Opus provides deep security analysis requiring maximum reasoning"],
     [name |-> "refactoring",
      keywords |-> <<"refactor the", "refactor this", "clean up the", "reorganize the",
                      "consolidate the", "modernize the", "restructure the", "improve the code",
                      "technical debt", "dead code">>,
      single_match_keywords |-> <<"refactor the", "refactor this", "technical debt">>,
      agent |-> "cursor",
      mode |-> "agent",
      model_tier |-> "complex",
      confidence_boost |-> 0,
      reasoning |-> "Cursor's agent mode is repo-aware for safe multi-file refactoring"],
     [name |-> "debugging_complex",
      keywords |-> <<"race condition", "memory leak", "deadlock", "async bug", "concurrency issue",
                      "intermittent failure", "timing issue", "hard to reproduce", "flaky test",
                      "thread safety", "mutex", "semaphore", "lock contention">>,
      single_match_keywords |-> <<"race condition", "memory leak", "deadlock", "concurrency issue",
                                   "intermittent failure", "flaky test">>,
      agent |-> "copilot",
      mode |-> "default",
      model_tier |-> "complex",
      confidence_boost |-> 5,
      reasoning |-> "Copilot with Opus for complex debugging requiring deep reasoning"],
     [name |-> "debugging",
      keywords |-> <<"debug the", "debug this", "fix the bug", "troubleshoot", "diagnose the",
                      "find the issue", "why is.*failing", "why is.*broken">>,
      single_match_keywords |-> <<"debug the", "troubleshoot", "diagnose the">>,
      agent |-> "cursor",
      mode |-> "agent",
      model_tier |-> "complex",
      confidence_boost |-> 0,
      reasoning |-> "Cursor's agent mode for systematic debugging with repo context"],
     [name |-> "research",
      keywords |-> <<"research how", "explore how", "find all", "understand how", "analyze how",
                      "investigate the", "discover", "locate all", "search for", "examine the",
                      "how is.*implemented", "where is.*used">>,
      single_match_keywords |-> <<"research how", "find all", "understand how", "analyze how">>,
      agent |-> "gemini",
      mode |-> "read",
      model_tier |-> "complex",
      confidence_boost |-> 0,
      reasoning |-> "Gemini excels at codebase analysis and pattern recognition"],
     [name |-> "documentation",
      keywords |-> <<"document the", "write docs", "update readme", "add jsdoc", "add comments",
                      "explain the code", "document this", "write documentation">>,
      single_match_keywords |-> <<"write docs", "write documentation", "update readme">>,
      agent |-> "gemini",
      mode |-> "edit",
      model_tier |-> "complex",
      confidence_boost |-> 0,
      reasoning |-> "Gemini produces clear, well-structured documentation"],
     [name |-> "code_generation",
      keywords |-> <<"implement the", "implement this", "write the code", "create the", "build the",
                      "add a new", "generate the", "scaffold">>,
      single_match_keywords |-> <<"implement the", "write the code", "build the">>,
      agent |-> "gemini",
      mode |-> "edit",
      model_tier |-> "complex",
      confidence_boost |-> 0,
      reasoning |-> "Gemini is the primary code generation engine with gemini-3-pro"],
     [name |-> "complex_analysis",
      keywords |-> <<"deep analysis", "comprehensive review", "thorough analysis",
                      "in-depth review", "complex reasoning", "detailed analysis">>,
      single_match_keywords |-> <<"deep analysis", "comprehensive review", "thorough analysis">>,
      agent |-> "copilot",
      mode |-> "default",
      model_tier |-> "complex",
      confidence_boost |-> 0,
      reasoning |-> "Copilot with Opus for tasks requiring maximum reasoning depth"],
     [name |-> "algorithms",
      keywords |-> <<"algorithm for", "optimize the", "time complexity", "space complexity",
                      "efficient implementation", "big o", "data structure for", "sorting algorithm",
                      "search algorithm", "optimize performance">>,
      single_match_keywords |-> <<"time complexity", "space complexity", "big o">>,
      agent |-> "codex",
      mode |-> "high_reasoning",
      model_tier |-> "complex",
      confidence_boost |-> 0,
      reasoning |-> "Codex with high reasoning for algorithmic thinking and optimization"],
     [name |-> "misc_coding",
      keywords |-> <<"utility", "helper function", "script for", "small task", "quick fix",
                      "simple change", "minor update">>,
      single_match_keywords |-> <<>>,
      agent |-> "codex",
      mode |-> "default",
      model_tier |-> "moderate",
      confidence_boost |-> 0,
      reasoning |-> "Codex handles miscellaneous coding tasks efficiently"]>>

\* d.get(key), None when the key is missing
Get(d, key) == IF key \in DOMAIN d THEN d[key] ELSE None

\* d.get(key, default)
GetOr(d, key, default) == IF key \in DOMAIN d THEN d[key] ELSE default

\* x in list
InList(x, list) == \E i \in 1..Len(list) : list[i] = x

(***************************************************************************)
(* classifier.py: detect_specialized_task                                  *)
(***************************************************************************)
Match(task_config, confidence, matched_keywords) ==
    [specialized_task |-> task_config.name,
     agent            |-> task_config.agent,
     mode             |-> task_config.mode,
     model_tier       |-> task_config.model_tier,
     reasoning        |-> task_config.reasoning,
     confidence       |-> confidence,
     matched_keywords |-> matched_keywords]

\* the candidate if the multi-keyword confidence were not capped
CandidateUncapped(task_config, subs) ==
    LET single_matches == Matching(task_config.single_match_keywords, subs)
        matches        == Matching(task_config.keywords, subs)
    IN  IF single_matches # <<>>
        THEN Match(task_config, FAdd(Lit(85), Lit(task_config.confidence_boost)), single_matches)
        ELSE IF Len(matches) >= 2
        THEN Match(task_config, FAdd(Lit(80), FMulInt(Lit(5), Len(matches))), matches)
        ELSE IF Len(matches) = 1 /\ AnyIn(supporting_context, subs)
        THEN Match(task_config, Lit(70), matches)
        ELSE NoneObj

\* the candidate if the keyword count were tried before the strong keywords
CandidateCountFirst(task_config, subs) ==
    LET single_matches == Matching(task_config.single_match_keywords, subs)
        matches        == Matching(task_config.keywords, subs)
    IN  IF Len(matches) >= 2
        THEN Match(task_config, FMin(FAdd(Lit(80), FMulInt(Lit(5), Len(matches))), Lit(95)), matches)
        ELSE IF single_matches # <<>>
        THEN Match(task_config, FAdd(Lit(85), Lit(task_config.confidence_boost)), single_matches)
        ELSE IF Len(matches) = 1 /\ AnyIn(supporting_context, subs)
        THEN Match(task_config, Lit(70), matches)
        ELSE NoneObj

\* the candidate one rule yields for the prompt, NoneObj when the rule does not hit
Candidate(task_config, subs) ==
    LET single_matches == Matching(task_config.single_match_keywords, subs)
        matches        == Matching(task_config.keywords, subs)
    IN  IF single_matches # <<>>
        THEN Match(task_config, FAdd(Lit(85), Lit(task_config.confidence_boost)), single_matches)
        ELSE IF Len(matches) >= 2
        THEN Match(task_config, FMin(FAdd(Lit(80), FMulInt(Lit(5), Len(matches))), Lit(95)), matches)
        ELSE IF Len(matches) = 1 /\ AnyIn(supporting_context, subs)
        THEN Match(task_config, Lit(70), matches)
        ELSE NoneObj

\* best_confidence of the loop: 0.0 until a match is kept
BestConfidence(best_match) == IF best_match = NoneObj THEN FZero ELSE best_match.confidence

\* one iteration if a later rule of equal confidence replaced the best match
ConsiderLast(best_match, task_config, subs) ==
    LET cand == Candidate(task_config, subs)
    IN  IF cand # NoneObj /\ ~FLess(cand.confidence, BestConfidence(best_match))
        THEN cand ELSE best_match

\* one iteration of the loop over the rules
Consider(best_match, task_config, subs) ==
    LET cand == Candidate(task_config, subs)
    IN  IF cand # NoneObj /\ FLess(BestConfidence(best_match), cand.confidence)
        THEN cand ELSE best_match

\* best[i] is best_match after the first i rules
detect_specialized_task(prompt) ==
    LET subs == Substrings(Lower(prompt))
        best[i \in 0..Len(SPECIALIZED_TASKS)] ==
            IF i = 0 THEN NoneObj ELSE Consider(best[i - 1], SPECIALIZED_TASKS[i], subs)
    IN  best[Len(SPECIALIZED_TASKS)]

(***************************************************************************)
(* classifier.py: select_agent.  installed is what check_installed_agents()*)
(* returned to the call (read only when available_only is set);            *)
(* exclude_agents is the set of the names in the caller's list.            *)
(***************************************************************************)
\* the exclusion set if the unreachable providers were left in the running
CallerExclusion(exclude_agents, available_only, installed) == exclude_agents

\* exclude_agents after lines 1028-1034
EffectiveExclusion(exclude_agents, available_only, installed) ==
    exclude_agents \cup
        (IF available_only THEN {a \in DOMAIN installed : ~installed[a]} ELSE {})

\* the tier if the speed step were taken before the cost step
AdjustTierSpeedFirst(model_tier, prefer_speed, prefer_cost) ==
    LET after_speed == IF prefer_speed /\ model_tier # "simple"
                       THEN (IF model_tier = "complex" THEN "moderate" ELSE "simple")
                       ELSE model_tier
    IN  IF prefer_cost /\ after_speed = "complex" THEN "moderate" ELSE after_speed

\* the complexity tier of the specialized path under the preferences
AdjustTier(model_tier, prefer_speed, prefer_cost) ==
    LET after_cost == IF prefer_cost /\ model_tier = "complex" THEN "moderate" ELSE model_tier
    IN  IF prefer_speed /\ after_cost # "simple"
        THEN (IF after_cost = "complex" THEN "moderate" ELSE "simple")
        ELSE after_cost

\* the mode token if the table were not consulted
ReasoningModeMedium(caps, tier) == Get(caps.modes, "medium_reasoning")

\* the mode token of a provider with a reasoning table
ReasoningMode(caps, tier) ==
    IF GetOr(caps.reasoning_by_complexity, tier, "medium") = "high"
    THEN Get(caps.modes, "high_reasoning")
    ELSE Get(caps.modes, "medium_reasoning")

\* the specialized decision once the tier is adjusted (lines 1047-1068)
TierDecision(classification, specialized, caps, model_tier) ==
    [selected_agent     |-> specialized.agent,
     confidence         |-> specialized.confidence,
     reasoning          |-> specialized.reasoning,
     recommended_model  |-> GetOr(caps.models, model_tier, caps.models["moderate"]),
     recommended_mode   |-> IF specialized.agent = "codex" /\ "reasoning_by_complexity" \in DOMAIN caps
                            THEN ReasoningMode(caps, model_tier)
                            ELSE Get(caps.modes, specialized.mode),
     specialized_task   |-> specialized.specialized_task,
     alternative_agents |-> <<>>,
     task_analysis      |-> classification]

SpecializedDecision(classification, specialized, prefer_speed, prefer_cost) ==
    TierDecision(classification, specialized, AGENT_CAPABILITIES[specialized.agent],
                 AdjustTier(specialized.model_tier, prefer_speed, prefer_cost))

\* score += bonus, where a branch not taken adds nothing
Plus(score, bonus) == IF bonus = NoneObj THEN score ELSE FAdd(score, bonus)

\* lines 1083-1084
StrengthBonus(caps, task_type) ==
    IF InList(task_type, caps.strengths) THEN Lit(50) ELSE NoneObj

\* the routing bonus if debugging were not among the task types of cursor's
AgentBonusNoDebugging(agent, task_type, complexity) ==
    IF agent = "gemini" /\ task_type = "code_generation" THEN Lit(30)
    ELSE IF agent = "cursor" /\ task_type \in {"planning", "architecture", "rewrite"}
    THEN Lit(30)
    ELSE IF agent = "copilot" /\ complexity = "complex" THEN Lit(20)
    ELSE IF agent = "codex" /\ task_type \notin {"planning", "architecture", "research"}
    THEN Lit(10)
    ELSE NoneObj

\* lines 1086-1093
AgentBonus(agent, task_type, complexity) ==
    IF agent = "gemini" /\ task_type = "code_generation" THEN Lit(30)
    ELSE IF agent = "cursor" /\ task_type \in {"planning", "architecture", "rewrite", "code_debugging"}
    THEN Lit(30)
    ELSE IF agent = "copilot" /\ complexity = "complex" THEN Lit(20)
    ELSE IF agent = "codex" /\ task_type \notin {"planning", "architecture", "research"}
    THEN Lit(10)
    ELSE NoneObj

\* lines 1095-1104
ComplexityBonus(caps, complexity) ==
    IF caps.complexity_preference = "any" THEN Lit(15)
    ELSE IF caps.complexity_preference = complexity THEN Lit(25)
    ELSE IF caps.complexity_preference = "complex" /\ complexity = "moderate" THEN Lit(10)
    ELSE NoneObj

\* lines 1106-1110
SpeedBonus(caps, prefer_speed) ==
    IF prefer_speed /\ caps.speed = "fast" THEN Lit(20) ELSE NoneObj

\* lines 1112-1115
CostBonus(caps, prefer_cost) ==
    IF prefer_cost /\ caps.cost = "low" THEN Lit(20) ELSE NoneObj

\* the additive score of one provider (lines 1080-1117)
AgentScore(agent, task_type, complexity, prefer_speed, prefer_cost) ==
    Plus(Plus(Plus(Plus(Plus(FZero,
        StrengthBonus(AGENT_CAPABILITIES[agent], task_type)),
        AgentBonus(agent, task_type, complexity)),
        ComplexityBonus(AGENT_CAPABILITIES[agent], complexity)),
        SpeedBonus(AGENT_CAPABILITIES[agent], prefer_speed)),
        CostBonus(AGENT_CAPABILITIES[agent], prefer_cost))

\* agent_scores.items(): the scored providers in declaration order
ScoredAgents(exclude_agents, task_type, complexity, prefer_speed, prefer_cost) ==
    LET keep == SelectSeq(AgentOrder, LAMBDA a : a \notin exclude_agents)
    IN  [i \in 1..Len(keep) |->
            <<keep[i], AgentScore(keep[i], task_type, complexity, prefer_speed, prefer_cost)>>]

\* the ranking if the sort put the later of two equal scores first
SortedTiesReversed(items) ==
    LET place(i) == 1 + Cardinality({j \in 1..Len(items) :
                            \/ FLess(items[i][2], items[j][2])
                            \/ j > i /\ ~FLess(items[j][2], items[i][2])})
    IN  [r \in 1..Len(items) |-> items[CHOOSE i \in 1..Len(items) : place(i) = r]]

\* sorted(items, key=lambda x: x[1], reverse=True): descending and stable
\* an item's place is behind every item of greater score and every earlier
\* item of equal score
SortedByScore(items) ==
    LET place(i) == 1 + Cardinality({j \in 1..Len(items) :
                            \/ FLess(items[i][2], items[j][2])
                            \/ j < i /\ ~FLess(items[j][2], items[i][2])})
    IN  [r \in 1..Len(items) |-> items[CHOOSE i \in 1..Len(items) : place(i) = r]]

FallbackDecision(classification) ==
    [selected_agent     |-> "gemini",
     confidence         |-> Lit(50),
     reasoning          |-> "Default fallback - all agents excluded or unavailable",
     recommended_model  |-> None,
     recommended_mode   |-> None,
     alternative_agents |-> <<>>,
     task_analysis      |-> classification]

\* the mode token of the generic path (lines 1154-1175)
GenericMode(best_agent, caps, task_type, complexity) ==
    IF best_agent = "cursor"
    THEN (IF task_type \in {"planning", "architecture"} THEN Get(caps.modes, "plan")
          ELSE IF task_type \in {"code_review", "code_explanation"} THEN Get(caps.modes, "ask")
          ELSE Get(caps.modes, "agent"))
    ELSE IF best_agent = "gemini"
    THEN (IF task_type \in {"code_generation", "documentation", "rewrite"}
          THEN Get(caps.modes, "edit") ELSE None)
    ELSE IF best_agent = "codex"
    THEN (IF "reasoning_by_complexity" \in DOMAIN caps THEN ReasoningMode(caps, complexity) ELSE None)
    ELSE IF best_agent = "copilot"
    THEN (IF task_type \in {"code_generation", "refactoring", "rewrite"}
          THEN Get(caps.modes, "edit") ELSE None)
    ELSE None

\* the alternatives if the slice were sorted_agents[0:2]
AlternativesFromTop(sorted_agents) ==
    [i \in 1..Min(2, Len(sorted_agents)) |->
        [agent       |-> sorted_agents[i][1],
         score       |-> Lit(Round2(sorted_agents[i][2])),
         description |-> AGENT_CAPABILITIES[sorted_agents[i][1]].description]]

\* [{"agent", "score", "description"} for a, s in sorted_agents[1:3]]
Alternatives(sorted_agents) ==
    [i \in 1..Min(2, Len(sorted_agents) - 1) |->
        [agent       |-> sorted_agents[i + 1][1],
         score       |-> Lit(Round2(sorted_agents[i + 1][2])),
         description |-> AGENT_CAPABILITIES[sorted_agents[i + 1][1]].description]]

\* the decision for the provider ranked first (lines 1133-1185)
BestDecision(classification, best_agent, best_score, caps, sorted_agents) ==
    [selected_agent     |-> best_agent,
     confidence         |-> Lit(Round2(best_score)),
     reasoning          |-> "Task type '" \o classification.task_type \o "' with "
                            \o classification.complexity \o " complexity."
                            \o (IF InList(classification.task_type, caps.strengths)
                                THEN " " \o Capitalize(best_agent) \o " excels at "
                                     \o classification.task_type \o "."
                                ELSE ""),
     recommended_model  |-> Get(caps.models, classification.complexity),
     recommended_mode   |-> GenericMode(best_agent, caps, classification.task_type,
                                        classification.complexity),
     alternative_agents |-> Alternatives(sorted_agents),
     task_analysis      |-> classification]

\* best_agent, best_score = sorted_agents[0]; best_score = min(1.0, max(0.0, best_score))
RankedDecision(classification, sorted_agents) ==
    BestDecision(classification, sorted_agents[1][1],
                 FMin(Lit(100), FMax(FZero, sorted_agents[1][2])),
                 AGENT_CAPABILITIES[sorted_agents[1][1]], sorted_agents)

\* the ranking if a best score that is not positive fell back to the default
ScoredDecisionPositive(classification, agent_scores) ==
    IF \/ agent_scores = <<>>
       \/ \A k \in DOMAIN agent_scores : ~FLess(FZero, agent_scores[k][2])
    THEN FallbackDecision(classification)
    ELSE RankedDecision(classification, SortedByScore(agent_scores))

\* lines 1119-1132
ScoredDecision(classification, agent_scores) ==
    IF agent_scores = <<>> THEN FallbackDecision(classification)
    ELSE RankedDecision(classification, SortedByScore(agent_scores))

GenericDecision(classification, exclude_agents, prefer_speed, prefer_cost) ==
    ScoredDecision(classification,
                   ScoredAgents(exclude_agents, classification.task_type,
                                classification.complexity, prefer_speed, prefer_cost))

\* the decision if the specialized path did not look at the exclusion set
DecideUnchecked(classification, prefer_speed, prefer_cost, excluded, specialized) ==
    IF specialized # NoneObj
    THEN SpecializedDecision(classification, specialized, prefer_speed, prefer_cost)
    ELSE GenericDecision(classification, excluded, prefer_speed, prefer_cost)

\* the decision if the detector's match were never used
DecideGeneric(classification, prefer_speed, prefer_cost, excluded, specialized) ==
    GenericDecision(classification, excluded, prefer_speed, prefer_cost)

\* the decision if a match that is passed over still left its rule name on the
\* generic decision
DecideNamed(classification, prefer_speed, prefer_cost, excluded, specialized) ==
    IF specialized # NoneObj /\ specialized.agent \notin excluded
    THEN SpecializedDecision(classification, specialized, prefer_speed, prefer_cost)
    ELSE IF specialized # NoneObj
    THEN [specialized_task |-> specialized.specialized_task]
             @@ GenericDecision(classification, excluded, prefer_speed, prefer_cost)
    ELSE GenericDecision(classification, excluded, prefer_speed, prefer_cost)

\* lines 1037-1039: the specialized path when the detector names a provider
\* that is not excluded, the generic path otherwise
Decide(classification, prefer_speed, prefer_cost, excluded, specialized) ==
    IF specialized # NoneObj /\ specialized.agent \notin excluded
    THEN SpecializedDecision(classification, specialized, prefer_speed, prefer_cost)
    ELSE GenericDecision(classification, excluded, prefer_speed, prefer_cost)

\* the return value of select_agent
select_agent(classification, prefer_speed, prefer_cost, exclude_agents, available_only, installed, prompt) ==
    Decide(classification, prefer_speed, prefer_cost,
           EffectiveExclusion(exclude_agents, available_only, installed),
           IF prompt # "" THEN detect_specialized_task(prompt) ELSE NoneObj)

(***************************************************************************)
(* router.py: the capability registry, select_agent, get_recommended_flags *)
(* and the /route endpoint.  The service runs with its default             *)
(* configuration (USE_NVIDIA_MODEL unset), in which get_model() answers    *)
(* "fallback" and classify_prompt is _rule_based_classify.                 *)
(***************************************************************************)
router_AGENT_CAPABILITIES ==
    "codex" :> [strengths |-> <<"code_generation", "code_debugging", "math">>,
        complexity_preference |-> "complex",
        description |-> "OpenAI Codex CLI - best for complex code generation with high reasoning",
        speed |-> "slow",
        cost |-> "high"]
    @@ "cursor" :> [strengths |-> <<"code_generation", "code_explanation", "code_review", "rewrite">>,
        complexity_preference |-> "moderate",
        description |-> "Cursor AI - best for repo-aware edits and refactoring",
        speed |-> "medium",
        cost |-> "medium"]
    @@ "gemini" :> [strengths |-> <<"open_qa", "summarization", "brainstorm", "extraction",
                                   "code_explanation", "text_generation">>,
        complexity_preference |-> "any",
        description |-> "Gemini CLI - best for analysis, explanation, and general reasoning",
        speed |-> "fast",
        cost |-> "low"]
    @@ "copilot" :> [strengths |-> <<"code_generation", "code_debugging", "closed_qa">>,
        complexity_preference |-> "simple",
        description |-> "GitHub Copilot CLI - fast for straightforward code tasks",
        speed |-> "fast",
        cost |-> "low"]

\* router.py lines 689-697
router_ComplexityBonus(caps, complexity) ==
    IF caps.complexity_preference = "any" THEN Lit(20)
    ELSE IF caps.complexity_preference = complexity THEN Lit(30)
    ELSE IF caps.complexity_preference = "complex" /\ complexity = "moderate" THEN Lit(15)
    ELSE IF caps.complexity_preference = "moderate" /\ complexity \in {"simple", "complex"}
    THEN Lit(10)
    ELSE NoneObj

\* router.py lines 699-704
router_SpeedBonus(caps, prefer_speed) ==
    IF ~prefer_speed THEN NoneObj
    ELSE IF caps.speed = "fast" THEN Lit(20)
    ELSE IF caps.speed = "medium" THEN Lit(10)
    ELSE NoneObj

\* router.py lines 706-711
router_CostBonus(caps, prefer_cost) ==
    IF ~prefer_cost THEN NoneObj
    ELSE IF caps.cost = "low" THEN Lit(20)
    ELSE IF caps.cost = "medium" THEN Lit(10)
    ELSE NoneObj

\* the score of one provider (router.py lines 682-713)
router_AgentScore(agent, task_type, complexity, prefer_speed, prefer_cost) ==
    Plus(Plus(Plus(Plus(FZero,
        StrengthBonus(router_AGENT_CAPABILITIES[agent], task_type)),
        router_ComplexityBonus(router_AGENT_CAPABILITIES[agent], complexity)),
        router_SpeedBonus(router_AGENT_CAPABILITIES[agent], prefer_speed)),
        router_CostBonus(router_AGENT_CAPABILITIES[agent], prefer_cost))

\* the scores if the loop did not skip the excluded providers
router_ScoredEveryAgent(exclude_agents, task_type, complexity, prefer_speed, prefer_cost) ==
    [i \in 1..Len(AgentOrder) |->
        <<AgentOrder[i],
          router_AgentScore(AgentOrder[i], task_type, complexity, prefer_speed, prefer_cost)>>]

router_ScoredAgents(exclude_agents, task_type, complexity, prefer_speed, prefer_cost) ==
    LET keep == SelectSeq(AgentOrder, LAMBDA a : a \notin exclude_agents)
    IN  [i \in 1..Len(keep) |->
            <<keep[i], router_AgentScore(keep[i], task_type, complexity, prefer_speed, prefer_cost)>>]

\* [{"agent", "score", "description"} for agent, score in sorted_agents[1:3]]
router_Alternatives(sorted_agents) ==
    [i \in 1..Min(2, Len(sorted_agents) - 1) |->
        [agent       |-> sorted_agents[i + 1][1],
         score       |-> sorted_agents[i + 1][2],
         description |-> router_AGENT_CAPABILITIES[sorted_agents[i + 1][1]].description]]

\* the tuple for the provider ranked first (router.py lines 718-744)
router_BestDecision(classification, prefer_speed, prefer_cost, best_agent, best_score, caps, sorted_agents) ==
    [selected_agent |-> best_agent,
     confidence     |-> best_score,
     reasoning      |-> "Task type '" \o classification.task_type \o "' with "
                        \o classification.complexity \o " complexity."
                        \o (IF InList(classification.task_type, caps.strengths)
                            THEN " " \o Capitalize(best_agent) \o " excels at "
                                 \o classification.task_type \o "."
                            ELSE "")
                        \o (IF prefer_speed
                            THEN " Speed preferred; " \o best_agent \o " is " \o caps.speed \o "."
                            ELSE "")
                        \o (IF prefer_cost
                            THEN " Cost preferred; " \o best_agent \o " cost is " \o caps.cost \o "."
                            ELSE ""),
     alternatives   |-> router_Alternatives(sorted_agents)]

router_RankedDecision(classification, prefer_speed, prefer_cost, sorted_agents) ==
    router_BestDecision(classification, prefer_speed, prefer_cost, sorted_agents[1][1],
                        sorted_agents[1][2], router_AGENT_CAPABILITIES[sorted_agents[1][1]],
                        sorted_agents)

\* router.py lines 715-718
router_ScoredDecision(classification, prefer_speed, prefer_cost, agent_scores) ==
    IF agent_scores = <<>>
    THEN [selected_agent |-> "gemini",
          confidence     |-> Lit(50),
          reasoning      |-> "Default fallback - all agents excluded",
          alternatives   |-> <<>>]
    ELSE router_RankedDecision(classification, prefer_speed, prefer_cost,
                               SortedByScore(agent_scores))

\* the tuple (selected_agent, confidence, reasoning, alternatives) as a record
router_select_agent(classification, prefer_speed, prefer_cost, exclude_agents) ==
    router_ScoredDecision(classification, prefer_speed, prefer_cost,
        router_ScoredAgents(exclude_agents, classification.task_type,
                            classification.complexity, prefer_speed, prefer_cost))

\* the flags dict, keyed by flag name
get_recommended_flags(agent, classification) ==
    LET task_type  == classification.task_type
        complexity == classification.complexity
        writes     == task_type \in {"code_generation", "code_debugging", "rewrite"}
    IN  IF agent = "codex"
        THEN ("sandbox" :> (IF task_type \in {"code_generation", "code_debugging"}
                            THEN "workspace-write" ELSE "read-only"))
             @@ ("reasoning" :> (IF complexity = "complex" THEN "high"
                                 ELSE IF complexity = "simple" THEN "low" ELSE "medium"))
        ELSE IF agent = "cursor"
        THEN "mode" :> (IF writes THEN "agent"
                        ELSE IF task_type \in {"code_explanation", "code_review"} THEN "ask"
                        ELSE "agent")
        ELSE IF agent = "gemini"
        THEN ("approval" :> (IF writes THEN "--yolo" ELSE "(none - read-only)"))
             @@ ("model" :> (IF complexity = "complex" THEN "gemini-2.5-pro"
                             ELSE "gemini-2.5-flash"))
        ELSE IF agent = "copilot"
        THEN "permissions" :> (IF writes THEN "--allow-all-paths" ELSE "(none - read-only)")
        ELSE <<>>

\* str(list(AGENT_CAPABILITIES.keys()))
ValidAgents == "['codex', 'cursor', 'gemini', 'copilot']"

\* HTTPException(status_code, detail) as the response the client gets
HTTPException(status_code, detail) == [status_code |-> status_code, detail |-> detail]

\* a RouteResponse, sent with status 200
RouteResponse(selected_agent, confidence, reasoning, task_analysis, alternative_agents, recommended_flags) ==
    [status_code        |-> 200,
     selected_agent     |-> selected_agent,
     confidence         |-> confidence,
     reasoning          |-> reasoning,
     task_analysis      |-> task_analysis,
     alternative_agents |-> alternative_agents,
     recommended_flags  |-> recommended_flags]

\* the forced path if the id were not looked up in the registry
ForcedResponseUnchecked(force_agent, classification) ==
    RouteResponse(force_agent, Lit(100), "Agent forced to " \o force_agent \o " by request",
                  classification, <<>>, <<>>)

\* the forced path (router.py lines 797-811)
ForcedResponse(force_agent, classification) ==
    IF force_agent \notin DOMAIN router_AGENT_CAPABILITIES
    THEN HTTPException(400, "Invalid agent: " \o force_agent \o ". Valid agents: " \o ValidAgents)
    ELSE RouteResponse(force_agent, Lit(100), "Agent forced to " \o force_agent \o " by request",
                       classification, <<>>, get_recommended_flags(force_agent, classification))

\* the scored path (router.py lines 813-831)
RoutedResponse(classification, decision) ==
    RouteResponse(decision.selected_agent, decision.confidence, decision.reasoning,
                  classification, decision.alternatives,
                  get_recommended_flags(decision.selected_agent, classification))

Respond(request, classification) ==
    IF request.force_agent \notin {None, ""}
    THEN ForcedResponse(request.force_agent, classification)
    ELSE RoutedResponse(classification,
                        router_select_agent(classification, request.prefer_speed,
                                            request.prefer_cost, request.exclude_agents))

\* POST /route.  RouteRequest declares no availability field: a request body
\* that carries one is accepted and the field is dropped, so request.available_only
\* is never read here.  force_agent None and "" are both falsy.
route_task(request) == Respond(request, rule_based_classify(request.prompt))

(***************************************************************************)
(* The running program: the module globals of classifier.py, the clock and *)
(* the environment they depend on, and the call being served.              *)
(***************************************************************************)
VARIABLES
    installed_agents_cache,  \* classifier._installed_agents_cache: NoneObj or agent -> BOOLEAN
    cache_timestamp,         \* classifier._cache_timestamp
    clock,                   \* time.time(), in seconds since the process started
    on_path,                 \* what probing each provider's command gives now
    call,                    \* the call being served, or the last one served
    answer,                  \* what the call returned; Pending until it returns
    history,                 \* <<prompt, result, cache populated>> of every classify_prompt served
    lookup,                  \* how the call served last got the availability mapping
    threads,                 \* the threads of a host that calls check_installed_agents
    written                  \* which refresh stored the snapshot, which the timestamp, and
                             \* the time the snapshot's own refresh stamped it with

vars == <<installed_agents_cache, cache_timestamp, clock, on_path, call, answer, history,
          lookup, threads, written>>

\* the state of the multi-threaded host
concurrent == <<threads, written>>

Agents == {AgentOrder[i] : i \in 1..Len(AgentOrder)}

\* the cache lifetime in seconds
TTL == 300

\* the clock stops here
MaxTime == 600

Pending == [pending |-> TRUE]

NoCall == [op |-> "none"]

(***************************************************************************)
(* classifier.py: check_installed_agents.  A probe finds the command       *)
(* ("found": which exits 0), does not find it ("missing": which exits      *)
(* nonzero) or fails ("error": subprocess.run raises).                     *)
(***************************************************************************)
ProbeOutcomes == {"found", "missing", "error"}

\* the probes if a failing probe ended the batch: the providers declared
\* after it are left unprobed and count as unreachable
ProbeAborting(path) ==
    [a \in Agents |->
        /\ path[a] = "found"
        /\ \A i \in DOMAIN AgentOrder, j \in DOMAIN AgentOrder :
              AgentOrder[j] = a /\ path[AgentOrder[i]] = "error" => ~(i < j)]

Probe(path) == [a \in Agents |-> path[a] = "found"]

\* lines 395-396: the cache is served
CacheHit(force_refresh) ==
    /\ ~force_refresh
    /\ installed_agents_cache # NoneObj
    /\ clock - cache_timestamp < TTL

\* what a call of check_installed_agents does to get the mapping: it probes,
\* because the caller forces it ("forced"), no snapshot is stored ("first")
\* or the stored one is 300 seconds old ("expired"); or it serves the cache,
\* which agrees with the commands on the PATH ("cached") or does not ("stale")
Lookup(force_refresh) ==
    IF force_refresh THEN "forced"
    ELSE IF installed_agents_cache = NoneObj THEN "first"
    ELSE IF ~(clock - cache_timestamp < TTL) THEN "expired"
    ELSE IF installed_agents_cache = Probe(on_path) THEN "cached" ELSE "stale"

\* the refresh if the cache were never served
AlwaysProbe(force_refresh) ==
    [installed |-> Probe(on_path), cache |-> Probe(on_path), timestamp |-> clock]

\* the refresh if a snapshot of exactly 300 seconds were still served
ServedAtLifetime(force_refresh) ==
    IF /\ ~force_refresh
       /\ installed_agents_cache # NoneObj
       /\ clock - cache_timestamp <= TTL
    THEN [installed |-> installed_agents_cache,
          cache     |-> installed_agents_cache,
          timestamp |-> cache_timestamp]
    ELSE [installed |-> Probe(on_path),
          cache     |-> Probe(on_path),
          timestamp |-> clock]

\* the returned dict with the new values of the two globals
check_installed_agents(force_refresh) ==
    IF /\ ~force_refresh
       /\ installed_agents_cache # NoneObj
       /\ clock - cache_timestamp < TTL
    THEN [installed |-> installed_agents_cache,
          cache     |-> installed_agents_cache,
          timestamp |-> cache_timestamp]
    ELSE [installed |-> Probe(on_path),
          cache     |-> Probe(on_path),
          timestamp |-> clock]

(***************************************************************************)
(* The calls                                                               *)
(***************************************************************************)
ClassifyCall(prompt) == [op |-> "classify_prompt", prompt |-> prompt]

RuleBasedCall(prompt) == [op |-> "rule_based_classify", prompt |-> prompt]

SelectCall(classification, prefer_speed, prefer_cost, exclude_agents, available_only, prompt) ==
    [op             |-> "select_agent",
     classification |-> classification,
     prefer_speed   |-> prefer_speed,
     prefer_cost    |-> prefer_cost,
     exclude_agents |-> exclude_agents,
     available_only |-> available_only,
     prompt         |-> prompt]

CheckCall(force_refresh) == [op |-> "check_installed_agents", force_refresh |-> force_refresh]

RouteCall(request) == [op |-> "route_task", request |-> request]

DetectCall(prompt) == [op |-> "detect_specialized_task", prompt |-> prompt]

\* a POST /route body; exclude_agents None counts as the empty list
RouteRequest(prompt, prefer_speed, prefer_cost, exclude_agents, force_agent, available_only) ==
    [prompt         |-> prompt,
     prefer_speed   |-> prefer_speed,
     prefer_cost    |-> prefer_cost,
     exclude_agents |-> exclude_agents,
     force_agent    |-> force_agent,
     available_only |-> available_only]

(***************************************************************************)
(* The inputs                                                              *)
(***************************************************************************)
TaskTypes ==
    {"research", "code_review", "code_debugging", "code_explanation", "rewrite",
     "code_generation", "summarization", "math", "open_qa"}

Tiers == {"simple", "moderate", "complex"}

AllFound == [a \in Agents |-> "found"]

SomeFound == [a \in Agents |-> IF a = "gemini" THEN "missing"
                                ELSE IF a = "copilot" THEN "error" ELSE "found"]

NoneFound == [a \in Agents |-> IF a = "codex" THEN "error" ELSE "missing"]

\* the probe of the provider declared first fails, the others are found
ErrorFirst == [a \in Agents |-> IF a = "codex" THEN "error" ELSE "found"]

PathStates == {AllFound, SomeFound, NoneFound, ErrorFirst}

JoinWords(a, b) == IF a = "" THEN b ELSE IF b = "" THEN a ELSE a \o " " \o b

Filler10 == "z z z z z z z z z z "

Filler40 == Filler10 \o Filler10 \o Filler10 \o Filler10

Filler == Filler40 \o Filler40 \o Filler40 \o Filler40

\* n words that match no keyword
Words(n) == IF n = 0 THEN "" ELSE SubSeq(Filler, 1, 2 * n - 1)

\* one prompt per rule of the cascade, and prompts no rule matches
TaskFragments ==
    {"xyz", "investigate and explore", "review this", "fix the crash", "explain the loop",
     "refactor it", "implement a parser", "summarize it", "calculate the sum", "what is it",
     "Fix The BUG"}

CoreTasks == {"xyz", "fix the crash", "investigate and explore"}

HighFragments ==
    {"", "advanced", "advanced scalable", "advanced scalable parallel",
     "complex advanced sophisticated production enterprise scalable distributed concurrent"}

LowFragments == {"", "basic", "basic tiny", "simple basic quick small tiny minimal"}

DepthFragments == {"", "docker", "docker kubernetes terraform"}

FileFragments == {"", "entire"}

StructFragments ==
    {"", "1. parse 2) save", "first parse and save and log - then * stop"}

ScopeFragments == {"", "whole", "whole every", "whole every throughout"}

\* word counts on both sides of the thresholds 30, 75 and 150
PadCounts == {0, 30, 31, 75, 76, 150, 151}

\* action keywords of the generation rule with and without a context keyword
GenerationPrompts ==
    {"write a poem", "write and create a poem", "write a summary", "write a function",
     "make and build and add it", "what should i write", "create the sum"}

ClassifyPrompts ==
    {JoinWords(JoinWords(JoinWords(JoinWords(t, h), l), d), f) :
        t \in CoreTasks, h \in HighFragments, l \in LowFragments, d \in DepthFragments,
        f \in FileFragments}
    \cup {JoinWords(JoinWords(t, r), Words(n)) :
            t \in TaskFragments, r \in StructFragments, n \in {0, 28, 73, 148}}
    \cup {Words(n) : n \in PadCounts}
    \cup {JoinWords("investigate and explore", q) : q \in ScopeFragments}
    \cup {"simple async", "where is the\tparser\nimplemented?", "inspect the crash"}
    \cup {JoinWords(a, b) : a \in TaskFragments, b \in TaskFragments}
    \cup GenerationPrompts

ClassifyCalls ==
    {ClassifyCall(q) : q \in ClassifyPrompts} \cup {RuleBasedCall(q) : q \in ClassifyPrompts}

ClassificationInputs == {[task_type |-> t, complexity |-> c] : t \in TaskTypes, c \in Tiers}

\* no prompt, a prompt no rule of the detector matches, and one strong hit
\* for each provider the detector can name
SelectPrompts ==
    {"", "xyz", "plan the release", "memory leak", "find all callers", "big o of sort"}

\* a keyword-pair hit of the one rule whose tier is moderate, under one
\* classification of each tier
ModeratePrompt == "utility small task"

ModerateInputs ==
    {[task_type |-> "math", complexity |-> "simple"],
     [task_type |-> "code_debugging", complexity |-> "moderate"],
     [task_type |-> "research", complexity |-> "complex"]}

SelectCalls ==
    {SelectCall(cl, sp, co, ex, av, q) :
        cl \in ClassificationInputs, sp \in BOOLEAN, co \in BOOLEAN, ex \in SUBSET Agents,
        av \in BOOLEAN, q \in SelectPrompts}
    \cup {SelectCall(cl, sp, co, ex, av, ModeratePrompt) :
            cl \in ModerateInputs, sp \in BOOLEAN, co \in BOOLEAN, ex \in SUBSET Agents,
            av \in BOOLEAN}

RoutePrompts == {"xyz", "fix the crash in the parser", "what is a distributed scalable queue"}

ForceAgents == {None, "", "gpt"} \cup Agents

RouteCalls ==
    {RouteCall(RouteRequest(q, sp, co, ex, fo, av)) :
        q \in RoutePrompts, sp \in BOOLEAN, co \in BOOLEAN, ex \in SUBSET Agents,
        fo \in ForceAgents, av \in BOOLEAN}

MainPrompts == {"fix the crash", "plan the release"}

\* strong hits, keyword hits without a strong keyword, a lone keyword, the
\* supporting context, and nothing
DetectFragments ==
    {"", "xyz", "plan the release", "plan for a strategy for it", "memory leak", "architect",
     "the api", "system design", "utility quick fix small task", "debug this", "find all"}

\* the last prompt has a strong keyword and three keywords of one rule and
\* two keywords, none strong, of another
DetectPrompts ==
    {JoinWords(a, b) : a \in DetectFragments, b \in DetectFragments}
    \cup {"plan the release plan for a strategy for it utility small task"}

DetectCalls == {DetectCall(q) : q \in DetectPrompts}

MainCalls ==
    {ClassifyCall(q) : q \in MainPrompts}
    \cup {SelectCall(classify_prompt(q), FALSE, FALSE, ex, av, q) :
            q \in MainPrompts, ex \in {{}, {"cursor"}}, av \in BOOLEAN}
    \cup {CheckCall(fr) : fr \in BOOLEAN}
    \cup {RouteCall(RouteRequest(q, FALSE, TRUE, {}, fo, FALSE)) :
            q \in {"fix the crash"}, fo \in {None, "codex"}}

(***************************************************************************)
(* The operations                                                          *)
(***************************************************************************)
\* classify_prompt if it served a stored result while the availability cache
\* is populated
ClassifyMemoized ==
    /\ call.op = "classify_prompt"
    /\ answer = Pending
    /\ answer' = IF history = {} \/ installed_agents_cache = NoneObj
                  THEN classify_prompt(call.prompt)
                  ELSE (CHOOSE h \in history : TRUE)[2]
    /\ history' = history \cup {<<call.prompt, answer', installed_agents_cache # NoneObj>>}
    /\ UNCHANGED <<installed_agents_cache, cache_timestamp, clock, on_path, call, lookup, concurrent>>

\* classifier.classify_prompt
Classify ==
    /\ call.op = "classify_prompt"
    /\ answer = Pending
    /\ answer' = classify_prompt(call.prompt)
    /\ history' = history \cup {<<call.prompt, answer', installed_agents_cache # NoneObj>>}
    /\ UNCHANGED <<installed_agents_cache, cache_timestamp, clock, on_path, call, lookup, concurrent>>

\* router._rule_based_classify
RuleBasedClassify ==
    /\ call.op = "rule_based_classify"
    /\ answer = Pending
    /\ answer' = rule_based_classify(call.prompt)
    /\ UNCHANGED <<installed_agents_cache, cache_timestamp, clock, on_path, call, history, lookup, concurrent>>

\* select_agent if it extended the caller's list in place
SelectAgentInPlace ==
    /\ call.op = "select_agent"
    /\ answer = Pending
    /\ LET checked == check_installed_agents(FALSE)
       IN  /\ installed_agents_cache' =
                  IF call.available_only THEN checked.cache ELSE installed_agents_cache
           /\ cache_timestamp' =
                  IF call.available_only THEN checked.timestamp ELSE cache_timestamp
           /\ answer' = select_agent(call.classification, call.prefer_speed, call.prefer_cost,
                                     call.exclude_agents, call.available_only,
                                     checked.installed, call.prompt)
           /\ call' = [call EXCEPT !.exclude_agents =
                          EffectiveExclusion(call.exclude_agents, call.available_only,
                                             checked.installed)]
    /\ lookup' = IF call.available_only THEN Lookup(FALSE) ELSE "none"
    /\ UNCHANGED <<clock, on_path, history, concurrent>>

\* classifier.select_agent, with the check_installed_agents() it makes when
\* available_only is set
SelectAgent ==
    /\ call.op = "select_agent"
    /\ answer = Pending
    /\ LET checked == check_installed_agents(FALSE)
       IN  /\ installed_agents_cache' =
                  IF call.available_only THEN checked.cache ELSE installed_agents_cache
           /\ cache_timestamp' =
                  IF call.available_only THEN checked.timestamp ELSE cache_timestamp
           /\ answer' = select_agent(call.classification, call.prefer_speed, call.prefer_cost,
                                     call.exclude_agents, call.available_only,
                                     checked.installed, call.prompt)
    /\ lookup' = IF call.available_only THEN Lookup(FALSE) ELSE "none"
    /\ UNCHANGED <<clock, on_path, call, history, concurrent>>

\* classifier.check_installed_agents
CheckInstalledAgents ==
    /\ call.op = "check_installed_agents"
    /\ answer = Pending
    /\ LET checked == check_installed_agents(call.force_refresh)
       IN  /\ installed_agents_cache' = checked.cache
           /\ cache_timestamp' = checked.timestamp
           /\ answer' = checked.installed
    /\ lookup' = Lookup(call.force_refresh)
    /\ UNCHANGED <<clock, on_path, call, history, concurrent>>

\* router.route_task
RouteTask ==
    /\ call.op = "route_task"
    /\ answer = Pending
    /\ answer' = route_task(call.request)
    /\ UNCHANGED <<installed_agents_cache, cache_timestamp, clock, on_path, call, history, lookup, concurrent>>

\* classifier.detect_specialized_task
Detect ==
    /\ call.op = "detect_specialized_task"
    /\ answer = Pending
    /\ answer' = detect_specialized_task(call.prompt)
    /\ UNCHANGED <<installed_agents_cache, cache_timestamp, clock, on_path, call, history, lookup, concurrent>>

\* a caller makes the next call
Invoke ==
    /\ answer # Pending
    /\ \E next_call \in MainCalls : call' = next_call
    /\ answer' = Pending
    /\ lookup' = "none"
    /\ UNCHANGED <<installed_agents_cache, cache_timestamp, clock, on_path, history, concurrent>>

\* time passes: just under the cache lifetime, or all of it
Tick ==
    /\ \E elapsed \in {TTL - 1, TTL} : clock + elapsed <= MaxTime /\ clock' = clock + elapsed
    /\ UNCHANGED <<installed_agents_cache, cache_timestamp, on_path, call, answer, history, lookup, concurrent>>

\* providers are installed or removed
PathChange ==
    /\ \E path \in PathStates \ {on_path} : on_path' = path
    /\ UNCHANGED <<installed_agents_cache, cache_timestamp, clock, call, answer, history, lookup, concurrent>>

(***************************************************************************)
(* classifier.py: check_installed_agents called from the threads of one    *)
(* process.  A thread can be preempted between any two statements, so each *)
(* read and each write of the two globals is a step of its own.  The loop  *)
(* of probes (lines 399-408) is one step: it touches no global.  A refresh *)
(* is known by the thread that runs it and the time of its probes.         *)
(***************************************************************************)
Threads == {"t1", "t2"}

Idle == [pc |-> "idle", force_refresh |-> FALSE, installed |-> NoneObj, probed_at |-> 0,
         result |-> NoneObj]

Refresh(t) == [by |-> t, at |-> threads[t].probed_at]

\* the stored snapshot has no timestamp of its own yet
NotStamped == 0 - 1

\* a thread calls check_installed_agents(force_refresh)
Enter ==
    /\ \E t \in Threads, force_refresh \in BOOLEAN :
          /\ threads[t].pc = "idle"
          /\ threads' = [threads EXCEPT ![t] = [Idle EXCEPT !.pc = "check",
                                                            !.force_refresh = force_refresh]]
    /\ UNCHANGED <<installed_agents_cache, cache_timestamp, clock, on_path, call, answer,
                   history, lookup, written>>

\* lines 395-396
CheckCache ==
    /\ \E t \in Threads :
          /\ threads[t].pc = "check"
          /\ threads' = [threads EXCEPT ![t].pc = IF CacheHit(threads[t].force_refresh)
                                                  THEN "return_cached" ELSE "probe"]
    /\ UNCHANGED <<installed_agents_cache, cache_timestamp, clock, on_path, call, answer,
                   history, lookup, written>>

\* line 397
ReturnCached ==
    /\ \E t \in Threads :
          /\ threads[t].pc = "return_cached"
          /\ threads' = [threads EXCEPT ![t].pc = "idle",
                                        ![t].result = installed_agents_cache]
    /\ UNCHANGED <<installed_agents_cache, cache_timestamp, clock, on_path, call, answer,
                   history, lookup, written>>

\* lines 399-408
ProbeAll ==
    /\ \E t \in Threads :
          /\ threads[t].pc = "probe"
          /\ threads' = [threads EXCEPT ![t].pc = "write_cache",
                                        ![t].installed = Probe(on_path),
                                        ![t].probed_at = clock]
    /\ UNCHANGED <<installed_agents_cache, cache_timestamp, clock, on_path, call, answer,
                   history, lookup, written>>

\* line 410
WriteCache ==
    /\ \E t \in Threads :
          /\ threads[t].pc = "write_cache"
          /\ installed_agents_cache' = threads[t].installed
          /\ written' = [written EXCEPT !.snapshot = Refresh(t), !.stamped = NotStamped]
          /\ threads' = [threads EXCEPT ![t].pc = "write_timestamp"]
    /\ UNCHANGED <<cache_timestamp, clock, on_path, call, answer, history, lookup>>

\* line 411
WriteTimestamp ==
    /\ \E t \in Threads :
          /\ threads[t].pc = "write_timestamp"
          /\ cache_timestamp' = clock
          /\ written' = [written EXCEPT !.timestamp = Refresh(t),
                                        !.stamped = IF written.snapshot = Refresh(t)
                                                    THEN clock ELSE @]
          /\ threads' = [threads EXCEPT ![t].pc = "return"]
    /\ UNCHANGED <<installed_agents_cache, clock, on_path, call, answer, history, lookup>>

\* line 412
Return ==
    /\ \E t \in Threads :
          /\ threads[t].pc = "return"
          /\ threads' = [threads EXCEPT ![t].pc = "idle",
                                        ![t].result = threads[t].installed]
    /\ UNCHANGED <<installed_agents_cache, cache_timestamp, clock, on_path, call, answer,
                   history, lookup, written>>

\* the local dict of a thread in the loop of lines 399-408: empty at line 399
SoFar(t) == IF threads[t].installed = NoneObj THEN <<>> ELSE threads[t].installed

\* the provider the loop probes next: the first declared without an entry
NextProbed(t) ==
    AgentOrder[CHOOSE k \in DOMAIN AgentOrder :
                  /\ AgentOrder[k] \notin DOMAIN SoFar(t)
                  /\ \A j \in 1..(k - 1) : AgentOrder[j] \in DOMAIN SoFar(t)]

\* the local dict with the entry of one more probe (lines 403-408: True when
\* the command is found, False when it is missing or the probe raises)
WithProbe(t) ==
    [a \in DOMAIN SoFar(t) \cup {NextProbed(t)} |->
        IF a = NextProbed(t) THEN on_path[a] = "found" ELSE SoFar(t)[a]]

\* the loop if the global were bound to the dict before it is filled
ProbeNextPublished ==
    /\ \E t \in Threads :
          /\ threads[t].pc = "probe"
          /\ threads' = [threads EXCEPT ![t].pc = IF DOMAIN WithProbe(t) = Agents
                                                  THEN "write_cache" ELSE "probe",
                                        ![t].installed = WithProbe(t),
                                        ![t].probed_at = clock]
          /\ installed_agents_cache' = WithProbe(t)
    /\ UNCHANGED <<cache_timestamp, clock, on_path, call, answer, history, lookup, written>>

\* one iteration of the loop of lines 401-408: the probes of a refresh are
\* made one after the other, and the PATH can change between two of them
ProbeNext ==
    /\ \E t \in Threads :
          /\ threads[t].pc = "probe"
          /\ threads' = [threads EXCEPT ![t].pc = IF DOMAIN WithProbe(t) = Agents
                                                  THEN "write_cache" ELSE "probe",
                                        ![t].installed = WithProbe(t),
                                        ![t].probed_at = clock]
    /\ UNCHANGED <<installed_agents_cache, cache_timestamp, clock, on_path, call, answer,
                   history, lookup, written>>

Fresh ==
    /\ installed_agents_cache = NoneObj
    /\ cache_timestamp = 0
    /\ clock = 0
    /\ history = {}
    /\ lookup = "none"
    /\ threads = [t \in Threads |-> Idle]
    /\ written = [snapshot |-> NoneObj, timestamp |-> NoneObj, stamped |-> NotStamped]

Init ==
    /\ Fresh
    /\ on_path \in PathStates
    /\ call = NoCall
    /\ answer = NoneObj

Next ==
    \/ Invoke
    \/ Classify
    \/ SelectAgent
    \/ CheckInstalledAgents
    \/ RouteTask
    \/ Tick
    \/ PathChange

Spec == Init /\ [][Next]_vars

\* one classification of a drawn prompt
InitClassify ==
    /\ Fresh
    /\ on_path = AllFound
    /\ call \in ClassifyCalls
    /\ answer = Pending

NextClassify == Classify \/ RuleBasedClassify

SpecClassify == InitClassify /\ [][NextClassify]_vars

\* the threads of one host, the clock and the PATH
InitCache ==
    /\ Fresh
    /\ on_path \in PathStates
    /\ call = NoCall
    /\ answer = NoneObj

NextCache ==
    \/ Enter
    \/ CheckCache
    \/ ReturnCached
    \/ ProbeAll
    \/ WriteCache
    \/ WriteTimestamp
    \/ Return
    \/ Tick
    \/ PathChange

SpecCache == InitCache /\ [][NextCache]_vars

\* the threads of one host with the probes of a refresh made one by one, in
\* the time the clock takes to move on: a snapshot is refreshed again when a
\* caller forces it
InitRefresh ==
    /\ Fresh
    /\ on_path \in PathStates
    /\ call = NoCall
    /\ answer = NoneObj

NextRefresh ==
    \/ Enter
    \/ CheckCache
    \/ ReturnCached
    \/ ProbeNext
    \/ WriteCache
    \/ WriteTimestamp
    \/ Return
    \/ PathChange

SpecRefresh == InitRefresh /\ [][NextRefresh]_vars

\* one detection on a drawn prompt
InitDetect ==
    /\ Fresh
    /\ on_path = AllFound
    /\ call \in DetectCalls
    /\ answer = Pending

NextDetect == Detect

SpecDetect == InitDetect /\ [][NextDetect]_vars

\* the PATH states of a decision: every provider reachable, some, none
DecidePaths == {AllFound, SomeFound, NoneFound}

\* one decision on a drawn call in a drawn environment (the environment is
\* read only under available_only or by the route)
InitDecide ==
    /\ Fresh
    /\ call \in SelectCalls \cup RouteCalls
    /\ on_path \in IF call.op = "select_agent" /\ ~call.available_only
                   THEN {AllFound} ELSE DecidePaths
    /\ answer = Pending

NextDecide == SelectAgent \/ RouteTask

SpecDecide == InitDecide /\ [][NextDecide]_vars

(***************************************************************************)
(* The properties                                                          *)
(***************************************************************************)
\* the call of this operation has returned
Done(op) == call.op = op /\ answer # Pending

\* the effective exclusion set of the select_agent call that returned: the
\* caller's list with the providers its availability snapshot (the cache the
\* call left behind) marks unreachable
SnapshotExclusion ==
    call.exclude_agents \cup
        (IF call.available_only THEN {a \in Agents : ~installed_agents_cache[a]} ELSE {})

Remaining == Agents \ SnapshotExclusion

\* C1: a select_agent call with available_only set that leaves at least one
\* provider outside the effective exclusion set (the caller's exclusions with
\* every provider the snapshot marks unreachable) returns a provider outside
\* that set.
C1_SelectedNotExcluded ==
    Done("select_agent") /\ call.available_only /\ Remaining # {}
        => answer.selected_agent \notin SnapshotExclusion

\* C1 as stated: also when the exclusion set is the whole registry
C1_NeverExcluded ==
    Done("select_agent") /\ call.available_only
        => answer.selected_agent \notin SnapshotExclusion

\* the caller and the snapshot each exclude a provider, and one remains
C1_Witness ==
    /\ Done("select_agent") /\ call.available_only
    /\ call.exclude_agents # {}
    /\ SnapshotExclusion # call.exclude_agents
    /\ Remaining # {}
    /\ answer.selected_agent \in Remaining

\* C2: when every provider of the registry is in the effective exclusion set,
\* select_agent returns the fixed default: gemini, confidence 0.5, no model,
\* no mode, no alternatives and the classification unchanged, also for a
\* prompt with a specialized match.
C2_AllExcludedDefault ==
    Done("select_agent") /\ Remaining = {}
        => /\ answer.selected_agent = "gemini"
           /\ answer.confidence = Lit(50)
           /\ answer.recommended_model = None
           /\ answer.recommended_mode = None
           /\ answer.alternative_agents = <<>>
           /\ answer.task_analysis = call.classification
           /\ "specialized_task" \notin DOMAIN answer

\* all excluded partly by unavailability, on a prompt the detector matches
C2_Witness ==
    /\ Done("select_agent") /\ Remaining = {}
    /\ call.exclude_agents \notin {{}, Agents}
    /\ detect_specialized_task(call.prompt) # NoneObj
    /\ call.prefer_speed /\ call.prefer_cost
    /\ answer.selected_agent = "gemini"

\* the call took the generic path: the decision names no specialized task
GenericPath == Done("select_agent") /\ "specialized_task" \notin DOMAIN answer

\* the additive score of every provider for every classification and pair
\* of preferences
ScoreTable ==
    [a \in Agents, t \in TaskTypes, c \in Tiers, sp \in BOOLEAN, co \in BOOLEAN |->
        AgentScore(a, t, c, sp, co)]

\* the score of a provider under the arguments of the call
CallScore(a) ==
    ScoreTable[a, call.classification.task_type, call.classification.complexity,
               call.prefer_speed, call.prefer_cost]

\* some provider remains and none that remains scores above zero
AllNonPositive == Remaining # {} /\ \A a \in Remaining : ~FLess(FZero, CallScore(a))

FirstRemaining ==
    AgentOrder[CHOOSE k \in 1..Len(AgentOrder) :
                  /\ AgentOrder[k] \in Remaining
                  /\ \A j \in 1..(k - 1) : AgentOrder[j] \notin Remaining]

FallbackRationale == "Default fallback - all agents excluded or unavailable"

AltOK(selected, alternatives, excluded) ==
    /\ Len(alternatives) <= 2
    /\ \A k \in DOMAIN alternatives :
          /\ alternatives[k].agent # selected
          /\ alternatives[k].agent \notin excluded
          /\ \A j \in DOMAIN alternatives : j # k => alternatives[j].agent # alternatives[k].agent

\* C4: every decision of select_agent (classifier.py and, through the route,
\* router.py) lists at most 2 alternatives, none of them the selected
\* provider, none of them twice and none of them in the effective exclusion
\* set.
C4_AlternativesWellFormed ==
    /\ Done("select_agent")
          => AltOK(answer.selected_agent, answer.alternative_agents, SnapshotExclusion)
    /\ Done("route_task") /\ answer.status_code = 200
          => AltOK(answer.selected_agent, answer.alternative_agents,
                   call.request.exclude_agents)

\* two alternatives out of three remaining providers
C4_Witness ==
    /\ Done("select_agent") /\ call.available_only
    /\ Cardinality(SnapshotExclusion) = 1
    /\ Len(answer.alternative_agents) = 2
    /\ AltOK(answer.selected_agent, answer.alternative_agents, SnapshotExclusion)

\* the route call that returned named a provider to force
Forced == Done("route_task") /\ call.request.force_agent \notin {None, ""}

\* C5: on the forced path of the route, an id that is no key of the registry
\* gives HTTP 400 and no decision; an id of the registry gives a decision
\* (never 400) whose selected provider is the forced id.
C5_ForcedProvider ==
    Forced
        => IF call.request.force_agent \in DOMAIN router_AGENT_CAPABILITIES
           THEN answer.status_code = 200 /\ answer.selected_agent = call.request.force_agent
           ELSE answer.status_code = 400 /\ "selected_agent" \notin DOMAIN answer

\* an unknown id is refused
C5_Witness ==
    /\ Forced
    /\ call.request.force_agent = "gpt"
    /\ answer.status_code = 400
    /\ "selected_agent" \notin DOMAIN answer

\* C6: on the forced path of the route, with availability restriction
\* requested and a registry id that is unreachable, the request fails and the
\* unreachable provider is not returned as the selected provider.
C6_ForcedUnreachableFails ==
    /\ Forced
    /\ call.request.available_only
    /\ call.request.force_agent \in DOMAIN router_AGENT_CAPABILITIES
    /\ on_path[call.request.force_agent] # "found"
    => /\ answer.status_code # 200
       /\ "selected_agent" \notin DOMAIN answer

Classified == Done("classify_prompt") \/ Done("rule_based_classify")

\* C7: every classification has a task type that is not null and is one of
\* the nine labels of the cascade, and a tier that is simple, moderate or
\* complex.
C7_LabelsInRange ==
    Classified
        => /\ answer.task_type # None
           /\ answer.task_type \in TaskTypes
           /\ answer.complexity \in Tiers

\* a prompt no rule claims gets the default label
C7_Witness ==
    /\ Done("classify_prompt")
    /\ answer.all_scores.task_signals = <<"default">>
    /\ answer.task_type = "code_generation"

\* the signal deltas in hundredths, as exact integers
LengthDelta(w) == IF w > 150 THEN 30 ELSE IF w > 75 THEN 20 ELSE IF w > 30 THEN 10 ELSE 0

MultiReqDelta(m) == IF m > 3 THEN 25 ELSE IF m > 1 THEN 15 ELSE 0

DepthDelta(d) == IF d > 2 THEN 20 ELSE IF d > 0 THEN 10 ELSE 0

ScopeDelta(m) == IF m >= 2 THEN 20 ELSE IF m = 1 THEN 10 ELSE 0

DeltaOf(prompt, prompt_lower, subs, research) ==
    LengthDelta(WordCount(prompt_lower))
    + 15 * CountIn(high_complexity, subs)
    - 10 * CountIn(low_complexity, subs)
    + MultiReqDelta(MultiReq(prompt, prompt_lower))
    + DepthDelta(CountIn(tech_depth, subs))
    + (IF AnyIn(multi_file, subs) THEN 15 ELSE 0)
    + (IF research THEN ScopeDelta(CountIn(research_scope, subs)) ELSE 0)

\* the sum of the signal deltas of the prompt that was classified
DeltaSum ==
    DeltaOf(call.prompt, Lower(call.prompt), Substrings(Lower(call.prompt)),
            call.op = "classify_prompt" /\ answer.task_type = "research")

Clamp(v, lo, hi) == IF v < lo THEN lo ELSE IF v > hi THEN hi ELSE v

\* C8: the complexity score returned equals clamp(sum of the signal deltas +
\* 0.3, 0.1, 0.95), in hundredths, and so lies in [0.1, 0.95].
C8_ScoreIsClampedSum ==
    Classified
        => /\ answer.complexity_score = Clamp(DeltaSum + 30, 10, 95)
           /\ answer.complexity_score \in 10..95

\* low-complexity keywords drive the sum below zero and the score is 0.1
C8_Witness ==
    /\ Done("classify_prompt")
    /\ DeltaSum + 30 < 0
    /\ answer.complexity_score = 10

TierOf(score) == IF score < 35 THEN "simple" ELSE IF score < 65 THEN "moderate" ELSE "complex"

\* C9: the tier returned is a function of the score returned: simple below
\* 0.35, moderate from 0.35 to below 0.65, complex from 0.65.
C9_TierFromScore ==
    Classified => answer.complexity = TierOf(answer.complexity_score)

RuleNames == {SPECIALIZED_TASKS[k].name : k \in 1..Len(SPECIALIZED_TASKS)}

MatchFields ==
    {"specialized_task", "agent", "mode", "model_tier", "reasoning", "confidence",
     "matched_keywords"}

\* C11: detect_specialized_task returns nothing or one match, and a match
\* has a confidence of at least 0.7 and at most 0.95, whatever kind of hit
\* produced it.
C11_MatchConfidenceBounds ==
    Done("detect_specialized_task") /\ answer # NoneObj
        => /\ DOMAIN answer = MatchFields
           /\ answer.specialized_task \in RuleNames
           /\ ~FLess(answer.confidence, Lit(70))
           /\ ~FLess(Lit(95), answer.confidence)

\* a lone keyword with supporting context: the lowest confidence there is
C11_Witness ==
    /\ Done("detect_specialized_task") /\ answer # NoneObj
    /\ Len(answer.matched_keywords) = 1
    /\ answer.confidence = Lit(70)

\* the rules that hit on the prompt of the call
CallSubs == Substrings(Lower(call.prompt))

HitRules(subs) == {k \in 1..Len(SPECIALIZED_TASKS) : Candidate(SPECIALIZED_TASKS[k], subs) # NoneObj}

\* rule k's candidate is the best: none is more confident, and every earlier
\* rule that hits is less confident
BestHit(k, hits, subs) ==
    \A j \in hits :
        /\ ~FLess(Candidate(SPECIALIZED_TASKS[k], subs).confidence,
                  Candidate(SPECIALIZED_TASKS[j], subs).confidence)
        /\ j < k => FLess(Candidate(SPECIALIZED_TASKS[j], subs).confidence,
                          Candidate(SPECIALIZED_TASKS[k], subs).confidence)

Chosen(result, hits, subs) ==
    IF hits = {} THEN result = NoneObj
    ELSE \E k \in hits : result = Candidate(SPECIALIZED_TASKS[k], subs) /\ BestHit(k, hits, subs)

\* C12: detect_specialized_task returns the candidate of highest confidence
\* over the rules that hit, the first declared among those of highest
\* confidence, and nothing exactly when no rule hits.
C12_HighestFirstDeclared ==
    Done("detect_specialized_task") => Chosen(answer, HitRules(CallSubs), CallSubs)

\* two rules hit with the same highest confidence and the earlier is returned
C12_Witness ==
    /\ Done("detect_specialized_task") /\ answer # NoneObj
    /\ \E k \in HitRules(CallSubs) :
          /\ SPECIALIZED_TASKS[k].name # answer.specialized_task
          /\ Candidate(SPECIALIZED_TASKS[k], CallSubs).confidence = answer.confidence

\* C13: a check_installed_agents(force_refresh=False) made while a snapshot
\* is stored and fewer than 300 seconds have passed since the stored
\* timestamp returns the stored mapping, whatever is on the PATH now, and
\* leaves the stored snapshot and the stored timestamp as they are.
C13_CacheServedInsideWindow ==
    [][CheckInstalledAgents /\ ~call.force_refresh /\ installed_agents_cache # NoneObj
           /\ clock - cache_timestamp < TTL
         => /\ answer' = installed_agents_cache
            /\ UNCHANGED <<installed_agents_cache, cache_timestamp>>]_vars

\* a call inside the window returned the stored mapping although the PATH
\* had changed since it was taken
C13_Witness ==
    /\ Done("check_installed_agents")
    /\ ~call.force_refresh
    /\ lookup = "stale"
    /\ answer = installed_agents_cache

\* C14: under concurrent check_installed_agents calls the stored timestamp
\* never labels the stored snapshot as fresher than the refresh that
\* produced it: once that refresh has stamped its snapshot, the stored
\* timestamp is not later than its stamp (a later one is the timestamp of
\* another refresh, paired with this snapshot).
C14_TimestampNotFresher ==
    written.stamped # NotStamped => cache_timestamp <= written.stamped

\* C15: when the caller excludes some providers and not all, and every
\* provider that remains is reachable, the selected provider is outside the
\* caller's exclusion set, in classifier.select_agent and in router.select_agent
\* (reached through the route without a forced provider).
C15_SelectedOutsideCallerExclusion ==
    /\ Done("select_agent") /\ call.exclude_agents # Agents
            /\ SnapshotExclusion = call.exclude_agents
          => answer.selected_agent \in Agents \ call.exclude_agents
    /\ Done("route_task") /\ ~Forced /\ call.request.exclude_agents # Agents
          => answer.selected_agent \in Agents \ call.request.exclude_agents

\* the router is left with one provider and selects it
C15_Witness ==
    /\ Done("route_task") /\ ~Forced
    /\ Cardinality(call.request.exclude_agents) = 3
    /\ answer.selected_agent \in Agents \ call.request.exclude_agents

\* prompts no rule of the cascade and no complexity signal reacts to
QuietPrompts == {"", "xyz", Words(30)}

\* C16: a prompt that triggers no cascade rule and no complexity signal (the
\* empty prompt, a keyword-free prompt of at most 30 words) is classified as
\* code_generation with confidence 0.5, complexity score 0.30 and tier
\* simple.
C16_QuietPromptDefault ==
    Classified /\ (\/ call.prompt \in QuietPrompts
                   \/ /\ answer.all_scores.task_signals = <<"default">>
                      /\ answer.all_scores.complexity_signals = <<"short">>)
        => /\ answer.task_type = "code_generation"
           /\ answer.task_type_confidence = 50
           /\ answer.complexity_score = 30
           /\ answer.complexity = "simple"
           /\ answer.all_scores.task_signals = <<"default">>
           /\ answer.all_scores.complexity_signals = <<"short">>

\* the empty prompt has been classified
C16_Witness ==
    /\ Done("classify_prompt")
    /\ call.prompt = ""
    /\ answer.task_type = "code_generation"
    /\ answer.complexity_score = 30

\* each rule of the cascade applied on its own to the prompt, in priority order
IsolatedRules(prompt, prompt_lower, subs, with_research) ==
    <<IF with_research THEN ResearchRule(CascadeStart, prompt_lower, subs) ELSE CascadeStart,
      ReviewRule(CascadeStart, subs),
      DebugRule(CascadeStart, subs),
      ExplainRule(CascadeStart, prompt, subs),
      RefactorRule(CascadeStart, subs),
      GenerationRule(CascadeStart, subs),
      SummaryRule(CascadeStart, subs),
      MathRule(CascadeStart, subs),
      OpenQARule(CascadeStart, prompt, prompt_lower),
      DefaultRule(CascadeStart)>>

\* the rules as they apply to the prompt of the call; classify_prompt has the
\* research rule, _rule_based_classify has not
CallRules ==
    IsolatedRules(call.prompt, Lower(call.prompt), CallSubs, call.op = "classify_prompt")

TriggeredRules(rules) == {k \in 1..Len(rules) : rules[k].task_type # None}

FirstTriggered(rules) ==
    rules[CHOOSE k \in TriggeredRules(rules) : \A j \in TriggeredRules(rules) : k <= j]

DecidedBy(result, rule) ==
    /\ result.task_type = rule.task_type
    /\ result.task_type_confidence = Round2(rule.confidence)
    /\ result.all_scores.task_signals = rule.signals

\* C17: the task type, its confidence and its signal are those of the
\* highest-priority rule whose trigger holds, in the order research, code
\* review, debugging, explanation, refactor, code generation, summarization,
\* math, open QA, default.
C17_FirstMatchWins ==
    Classified => DecidedBy(answer, FirstTriggered(CallRules))

\* review and debugging keywords together: code_review with the review confidence
C17_Witness ==
    /\ Done("classify_prompt")
    /\ {2, 3} \subseteq TriggeredRules(CallRules)
    /\ 1 \notin TriggeredRules(CallRules)
    /\ answer.task_type = "code_review"
    /\ answer.task_type_confidence = Round2(KeywordConfidence(CountIn(review_keywords, CallSubs)))

\* no rule above the generation rule triggers on the prompt of the call
NoHigherRule == TriggeredRules(CallRules) \cap (1..5) = {}

\* no rule between the generation rule and the default triggers on it
NoLowerRule == TriggeredRules(CallRules) \cap (7..9) = {}

GenMatches == CountIn(gen_keywords, CallSubs)

ContextMatches == CountIn(gen_context, CallSubs)

\* the generation rule decided the task type
ClaimedByGeneration == StartsWith(answer.all_scores.task_signals[1], "gen_keywords:")

\* C18: the code-generation rule claims a prompt that no higher rule claims
\* exactly when the prompt has an action keyword and a context keyword, or
\* two action keywords; two action keywords without a context keyword give
\* code_generation with confidence 0.7; one action keyword without a context
\* keyword is left to the summarization, math and open-QA rules and, if none
\* of them fires, gets the default result with confidence 0.5.
C18_GenerationTrigger ==
    Classified /\ NoHigherRule
        => /\ ClaimedByGeneration
                <=> (GenMatches > 0 /\ ContextMatches > 0) \/ GenMatches >= 2
           /\ GenMatches >= 2 /\ ContextMatches = 0
                => /\ answer.task_type = "code_generation"
                   /\ answer.task_type_confidence = 70
           /\ GenMatches = 1 /\ ContextMatches = 0
                => /\ DecidedBy(answer, FirstTriggered(CallRules))
                   /\ NoLowerRule
                        => /\ answer.all_scores.task_signals = <<"default">>
                           /\ answer.task_type_confidence = 50

\* C18 as stated: action keywords, however many, without a context keyword
\* are not claimed by the code-generation rule
C18_NeverWithoutContext ==
    Classified /\ NoHigherRule /\ GenMatches > 0 /\ ContextMatches = 0
        => ~ClaimedByGeneration

\* two action keywords and no context keyword: code_generation at 0.7
C18_Witness ==
    /\ Done("classify_prompt") /\ NoHigherRule
    /\ GenMatches = 2 /\ ContextMatches = 0
    /\ ClaimedByGeneration
    /\ answer.task_type_confidence = 70

DeclIndex(a) == CHOOSE k \in 1..Len(AgentOrder) : AgentOrder[k] = a

\* b is ranked before a: its score is greater, or equal with b declared first
Beats(b, a) ==
    \/ FLess(CallScore(a), CallScore(b))
    \/ ~FLess(CallScore(b), CallScore(a)) /\ DeclIndex(b) < DeclIndex(a)

\* the rank of a remaining provider: one more than the providers ranked before it
RankOf(a) == 1 + Cardinality({b \in Remaining \ {a} : Beats(b, a)})

Ranked(r) == CHOOSE a \in Remaining : RankOf(a) = r

\* C19: in the generic path with a provider remaining, the selected provider
\* has the greatest score of those remaining and is the first declared of
\* those with it; the confidence is its score clamped to [0, 1] (to two
\* decimals); the alternatives are the providers ranked second and third.
C19_RankedByScore ==
    GenericPath /\ Remaining # {}
        => /\ answer.selected_agent = Ranked(1)
           /\ \A a \in Remaining : ~FLess(CallScore(answer.selected_agent), CallScore(a))
           /\ answer.confidence =
                  Lit(Round2(FMin(Lit(100), FMax(FZero, CallScore(answer.selected_agent)))))
           /\ Len(answer.alternative_agents) = Min(2, Cardinality(Remaining) - 1)
           /\ \A k \in DOMAIN answer.alternative_agents :
                  answer.alternative_agents[k].agent = Ranked(k + 1)

\* the two best scores are equal and the first declared is selected
C19_Witness ==
    /\ GenericPath /\ Cardinality(Remaining) >= 3
    /\ ~FLess(CallScore(Ranked(1)), CallScore(Ranked(2)))
    /\ ~FLess(CallScore(Ranked(2)), CallScore(Ranked(1)))
    /\ answer.selected_agent = Ranked(1)
    /\ answer.alternative_agents[1].agent = Ranked(2)

\* the detector's match for each prompt a select_agent call is made with
MatchTable ==
    [q \in (SelectPrompts \cup {ModeratePrompt} \cup MainPrompts) \ {""} |->
        detect_specialized_task(q)]

\* the detector's match for the prompt of the call
CallMatch ==
    IF call.prompt = "" THEN NoneObj
    ELSE IF call.prompt \in DOMAIN MatchTable THEN MatchTable[call.prompt]
    ELSE detect_specialized_task(call.prompt)

\* the call has a match whose provider is outside the effective exclusion set
MatchUsable == Done("select_agent") /\ CallMatch # NoneObj /\ CallMatch.agent \in Remaining

\* C20: when the detector yields a match for the prompt and the match's
\* provider is not in the effective exclusion set, the decision names that
\* provider, the match confidence and the rule name, and has no
\* alternatives, whatever the classification and the generic scores; a
\* strong planning keyword gives cursor in its plan mode with confidence of
\* at least 0.85.
C20_SpecializedShortCircuit ==
    MatchUsable
        => /\ answer.selected_agent = CallMatch.agent
           /\ answer.confidence = CallMatch.confidence
           /\ "specialized_task" \in DOMAIN answer
           /\ answer.specialized_task = CallMatch.specialized_task
           /\ answer.reasoning = CallMatch.reasoning
           /\ answer.alternative_agents = <<>>
           /\ answer.task_analysis = call.classification
           /\ call.prompt = "plan the release"
                => /\ answer.selected_agent = "cursor"
                   /\ answer.specialized_task = "planning"
                   /\ answer.recommended_mode = AGENT_CAPABILITIES["cursor"].modes["plan"]
                   /\ ~FLess(answer.confidence, Lit(85))

\* the planning specialist is selected although the generic ranking of the
\* classification puts another provider first
C20_Witness ==
    /\ MatchUsable
    /\ call.prompt = "plan the release"
    /\ answer.selected_agent = "cursor"
    /\ RankOf("cursor") > 1
    /\ answer.alternative_agents = <<>>

\* the detector has a match for the prompt of the call and the match's
\* provider is in the effective exclusion set
MatchExcluded ==
    Done("select_agent") /\ CallMatch # NoneObj /\ CallMatch.agent \in SnapshotExclusion

\* C21: when the detector's match names a provider of the effective exclusion
\* set, or the prompt is empty, select_agent returns a decision (it does not
\* raise) that names no specialized task and embeds the classification: with
\* a provider remaining it is the one the generic scores rank first, which is
\* not the matched provider; with none remaining it is the fixed default.
C21_ExcludedMatchFallsThrough ==
    MatchExcluded \/ (Done("select_agent") /\ call.prompt = "")
        => /\ "selected_agent" \in DOMAIN answer
           /\ "specialized_task" \notin DOMAIN answer
           /\ answer.task_analysis = call.classification
           /\ Remaining # {}
                => /\ answer.selected_agent = Ranked(1)
                   /\ answer.selected_agent \in Remaining
                   /\ answer.reasoning # FallbackRationale
                   /\ Len(answer.alternative_agents) = Min(2, Cardinality(Remaining) - 1)
           /\ Remaining = {}
                => /\ answer.selected_agent = "gemini"
                   /\ answer.reasoning = FallbackRationale

\* C21 as stated: the matched provider is never returned, also when the
\* exclusion set is the whole registry
C21_MatchedNeverReturned ==
    MatchExcluded => answer.selected_agent # CallMatch.agent

\* the matched provider is left out by unavailability alone and another
\* provider is selected by the generic scores
C21_Witness ==
    /\ MatchExcluded
    /\ call.available_only
    /\ CallMatch.agent \notin call.exclude_agents
    /\ Remaining # {}
    /\ answer.selected_agent # CallMatch.agent
    /\ "specialized_task" \notin DOMAIN answer
    /\ answer.alternative_agents # <<>>

\* the tier the preferences leave of a rule's tier: one row per rule tier
AdjustedTier(tier, prefer_speed, prefer_cost) ==
    IF tier = "complex"
    THEN (IF prefer_speed /\ prefer_cost THEN "simple"
          ELSE IF prefer_speed \/ prefer_cost THEN "moderate"
          ELSE "complex")
    ELSE IF tier = "moderate"
    THEN (IF prefer_speed THEN "simple" ELSE "moderate")
    ELSE "simple"

\* C22: in the specialized path the recommended model is the selected
\* provider's model-table entry for the rule's tier adjusted by the
\* preferences: complex becomes moderate under prefer_cost, a non-simple tier
\* steps down one level under prefer_speed, cost is applied before speed
\* (complex becomes simple under both), the tier is unchanged under neither,
\* and a simple tier is never changed.
C22_TierAdjustedByPreferences ==
    /\ \A sp \in BOOLEAN, co \in BOOLEAN :
          /\ AdjustTier("simple", sp, co) = "simple"
          /\ \A tier \in Tiers : AdjustTier(tier, sp, co) = AdjustedTier(tier, sp, co)
    /\ MatchUsable
          => answer.recommended_model =
                 AGENT_CAPABILITIES[answer.selected_agent].models[
                     AdjustedTier(CallMatch.model_tier, call.prefer_speed, call.prefer_cost)]

\* both preferences take the planning rule's complex tier down to the
\* provider's model for simple tasks
C22_Witness ==
    /\ MatchUsable
    /\ call.prefer_speed /\ call.prefer_cost
    /\ CallMatch.model_tier = "complex"
    /\ answer.selected_agent = "cursor"
    /\ answer.recommended_model = AGENT_CAPABILITIES["cursor"].models["simple"]
    /\ answer.recommended_model # AGENT_CAPABILITIES["cursor"].models["moderate"]

\* the step in which the pending call of this operation returns
Returns(op) == call.op = op /\ answer = Pending /\ answer' # Pending

\* a call with this force_refresh has to probe: nothing is stored, or the
\* caller forces it, or the stored timestamp is 300 seconds old or older
RefreshDue(force_refresh) ==
    \/ installed_agents_cache = NoneObj
    \/ force_refresh
    \/ clock - cache_timestamp >= TTL

\* the step probes every provider, stores the result and stamps it with the
\* time of the call
Refreshes ==
    /\ lookup' \in {"first", "forced", "expired"}
    /\ installed_agents_cache' = [a \in Agents |-> on_path[a] = "found"]
    /\ cache_timestamp' = clock

\* the step does not probe and leaves both globals alone
Serves ==
    /\ lookup' \in {"cached", "stale"}
    /\ UNCHANGED <<installed_agents_cache, cache_timestamp>>

\* C23: check_installed_agents refreshes (probes every provider, replaces
\* the stored snapshot, sets the timestamp to the time of the call and
\* returns the new snapshot) whenever no snapshot is stored, or force_refresh
\* is set, or the stored timestamp is at least 300 seconds old; since every
\* refresh stamps the time it completes and no other step changes the stamp,
\* a non-forced call less than 300 seconds after a refresh does not probe.
\* The same holds for the call select_agent makes under available_only.
C23_RefreshOnDemandOrExpiry ==
    [][/\ Returns("check_installed_agents")
            => IF RefreshDue(call.force_refresh)
               THEN Refreshes /\ answer' = installed_agents_cache'
               ELSE Serves /\ answer' = installed_agents_cache
       /\ Returns("select_agent") /\ call.available_only
            => IF RefreshDue(FALSE) THEN Refreshes ELSE Serves
       /\ ~Returns("check_installed_agents")
          /\ ~(Returns("select_agent") /\ call.available_only)
            => UNCHANGED <<installed_agents_cache, cache_timestamp>>]_vars

\* a non-forced call exactly 300 seconds after the snapshot was taken at
\* time 0 probed again and stored what is on the PATH now
C23_Witness ==
    /\ Done("check_installed_agents")
    /\ ~call.force_refresh
    /\ lookup = "expired"
    /\ clock = TTL
    /\ cache_timestamp = TTL
    /\ answer = Probe(on_path)
    /\ installed_agents_cache = answer

\* C24: in a refresh, a probe that raises or times out marks its own
\* provider unreachable and nothing else: the call returns (it does not
\* raise) a mapping with an entry for every provider, in which every other
\* provider has the value of its own probe (reachable exactly when its
\* command was found), and that mapping is what is stored.
C24_ProbeErrorIsolated ==
    [][Returns("check_installed_agents") /\ lookup' \in {"first", "forced", "expired"}
         => /\ DOMAIN answer' = Agents
            /\ \A a \in Agents :
                  /\ on_path[a] = "error" => ~answer'[a]
                  /\ on_path[a] = "found" => answer'[a]
                  /\ on_path[a] = "missing" => ~answer'[a]
            /\ installed_agents_cache' = answer']_vars

\* the first probe of the batch failed and every later provider was still
\* probed and found
C24_Witness ==
    /\ Done("check_installed_agents")
    /\ lookup \in {"first", "forced", "expired"}
    /\ on_path = ErrorFirst
    /\ ~answer["codex"]
    /\ \A a \in Agents \ {"codex"} : answer[a]
    /\ installed_agents_cache = answer

\* the providers whose declared strengths include the task type
StrongAt(task_type) == {a \in Agents : InList(task_type, AGENT_CAPABILITIES[a].strengths)}

\* a returned call for a code_debugging classification with no specialized
\* match and every provider in the running
DebuggingUnrestricted ==
    /\ Done("select_agent")
    /\ call.classification.task_type = "code_debugging"
    /\ CallMatch = NoneObj
    /\ SnapshotExclusion = {}

\* C25: for a code_debugging classification, with no specialized match and
\* no provider excluded or unreachable, select_agent selects the one provider
\* whose strengths include code_debugging, cursor, for every complexity tier
\* and every pair of preference flags.
C25_DebuggingGoesToCursor ==
    /\ StrongAt("code_debugging") = {"cursor"}
    /\ DebuggingUnrestricted
          => /\ answer.selected_agent = "cursor"
             /\ "specialized_task" \notin DOMAIN answer
             /\ \A a \in Agents \ {"cursor"} : FLess(CallScore(a), CallScore("cursor"))

\* a complex debugging task under both preferences, where the fast and cheap
\* provider comes closest, still goes to cursor
C25_Witness ==
    /\ DebuggingUnrestricted
    /\ call.classification.complexity = "complex"
    /\ call.prefer_speed /\ call.prefer_cost
    /\ call.available_only
    /\ answer.selected_agent = "cursor"
    /\ answer.alternative_agents[1].agent = "gemini"

\* the provider has a reasoning-escalation table
HasReasoningTable(a) == "reasoning_by_complexity" \in DOMAIN AGENT_CAPABILITIES[a]

\* the tier the tables are read with: the rule's tier under the preferences
\* in the specialized path, the tier of the classification in the generic one
EffectiveTier ==
    IF "specialized_task" \in DOMAIN answer
    THEN AdjustedTier(CallMatch.model_tier, call.prefer_speed, call.prefer_cost)
    ELSE call.classification.complexity

\* the reasoning token the provider's table gives for the tier
TableMode(a, tier) ==
    IF AGENT_CAPABILITIES[a].reasoning_by_complexity[tier] = "high"
    THEN AGENT_CAPABILITIES[a].modes["high_reasoning"]
    ELSE AGENT_CAPABILITIES[a].modes["medium_reasoning"]

\* C26: when the selected provider has a reasoning-escalation table (codex
\* alone has one), the recommended mode is the high-reasoning token if the
\* table maps the effective tier to high and the medium-reasoning token
\* otherwise, whatever mode the rule or the task type names; when a provider
\* without a table is selected in the specialized path, the recommended mode
\* is the entry of its mode table for the rule's mode name.
C26_ReasoningTableDecidesMode ==
    /\ {a \in Agents : HasReasoningTable(a)} = {"codex"}
    /\ Done("select_agent") /\ HasReasoningTable(answer.selected_agent)
          => answer.recommended_mode = TableMode(answer.selected_agent, EffectiveTier)
    /\ MatchUsable /\ ~HasReasoningTable(answer.selected_agent)
          => answer.recommended_mode =
                 AGENT_CAPABILITIES[answer.selected_agent].modes[CallMatch.mode]

\* the algorithms rule names the high-reasoning mode, the cost preference
\* takes its tier down to moderate, and the table gives the medium token
C26_Witness ==
    /\ MatchUsable
    /\ answer.selected_agent = "codex"
    /\ CallMatch.mode = "high_reasoning"
    /\ call.prefer_cost /\ ~call.prefer_speed
    /\ answer.recommended_mode = AGENT_CAPABILITIES["codex"].modes["medium_reasoning"]
    /\ answer.recommended_mode # AGENT_CAPABILITIES["codex"].modes[CallMatch.mode]

\* the research rule of classifier.classify_prompt does not fire on the prompt
ResearchSilent(prompt) ==
    ResearchRule(CascadeStart, Lower(prompt), Substrings(Lower(prompt))).task_type = None

\* the four fields the two classifiers are compared on
Verdict(result) ==
    <<result.task_type, result.task_type_confidence, result.complexity_score,
      result.complexity>>

RuleIndexes == DOMAIN SPECIALIZED_TASKS

\* a strong keyword of rule k is in the prompt
StrongHit(k, subs) == AnyIn(SPECIALIZED_TASKS[k].single_match_keywords, subs)

\* rule k is hit through two or more keywords and no strong one
PairHit(k, subs) ==
    ~StrongHit(k, subs) /\ Len(Matching(SPECIALIZED_TASKS[k].keywords, subs)) >= 2

\* the rule the returned match belongs to
AnswerRule == CHOOSE k \in RuleIndexes : SPECIALIZED_TASKS[k].name = answer.specialized_task

\* C28: a rule with a strong keyword in the prompt yields a candidate of
\* confidence exactly 0.85 plus the rule's bonus whose matched keywords are
\* the strong keywords found, however many of the rule's keywords are in the
\* prompt; the returned match of such a rule has that confidence and those
\* keywords; and when one rule is hit through two keywords without a strong
\* one and another, bonus-free, through a strong keyword, the returned match
\* is not the latter's and has confidence of at least 0.90.
C28_StrongHitPrecedence ==
    Done("detect_specialized_task")
        => /\ \A k \in RuleIndexes :
                 StrongHit(k, CallSubs)
                     => /\ Candidate(SPECIALIZED_TASKS[k], CallSubs).confidence =
                               FAdd(Lit(85), Lit(SPECIALIZED_TASKS[k].confidence_boost))
                        /\ Candidate(SPECIALIZED_TASKS[k], CallSubs).matched_keywords =
                               Matching(SPECIALIZED_TASKS[k].single_match_keywords, CallSubs)
           /\ answer # NoneObj /\ StrongHit(AnswerRule, CallSubs)
                 => /\ answer.confidence =
                           FAdd(Lit(85), Lit(SPECIALIZED_TASKS[AnswerRule].confidence_boost))
                    /\ answer.matched_keywords =
                           Matching(SPECIALIZED_TASKS[AnswerRule].single_match_keywords, CallSubs)
           /\ \A k \in RuleIndexes, j \in RuleIndexes :
                 /\ PairHit(k, CallSubs)
                 /\ StrongHit(j, CallSubs)
                 /\ SPECIALIZED_TASKS[j].confidence_boost = 0
                 => /\ answer # NoneObj
                    /\ answer.specialized_task # SPECIALIZED_TASKS[j].name
                    /\ ~FLess(answer.confidence, Lit(90))

\* the planning rule has a strong keyword and three of its keywords in the
\* prompt, which leaves it at 0.85, and the rule hit through two plain
\* keywords is returned with 0.90
C28_Witness ==
    /\ Done("detect_specialized_task")
    /\ \E j \in RuleIndexes :
          /\ StrongHit(j, CallSubs)
          /\ Len(Matching(SPECIALIZED_TASKS[j].keywords, CallSubs)) >= 3
          /\ Candidate(SPECIALIZED_TASKS[j], CallSubs).confidence = Lit(85)
          /\ answer.specialized_task # SPECIALIZED_TASKS[j].name
    /\ PairHit(AnswerRule, CallSubs)
    /\ answer.confidence = Lit(90)

\* C29: a select_agent call, on any path and with any arguments, leaves the
\* caller's exclusion list with the elements it had (the unreachable
\* providers go into the call's own copy) and the other arguments as they
\* were, embeds the classification it was passed in the decision unmodified,
\* and with available_only=False neither reads nor writes the availability
\* cache.  (The capability registry and the rule table are constants: no
\* statement of the program assigns to them or to a part of them.)
C29_SelectAgentFrame ==
    [][Returns("select_agent")
         => /\ call'.exclude_agents = call.exclude_agents
            /\ call' = call
            /\ answer'.task_analysis = call.classification
            /\ ~call.available_only
                  => /\ UNCHANGED <<installed_agents_cache, cache_timestamp>>
                     /\ lookup' = "none"]_vars

\* a call under available_only whose snapshot rules providers out that the
\* caller's list, still empty after the call, does not name; and the
\* classification is in the decision
C29_Witness ==
    /\ Done("select_agent")
    /\ call.available_only
    /\ call.exclude_agents = {}
    /\ SnapshotExclusion = {"gemini", "copilot"}
    /\ answer.selected_agent \in Remaining
    /\ answer.task_analysis = call.classification

\* a mapping with exactly one boolean entry for every provider of the registry
Complete(m) == DOMAIN m = Agents /\ \A a \in Agents : m[a] \in BOOLEAN

\* the stored snapshot and every mapping a caller has received are complete,
\* and a snapshot is absent only while no refresh has stored one and no
\* caller has received one
SnapshotsWhole ==
    /\ installed_agents_cache = NoneObj \/ Complete(installed_agents_cache)
    /\ \A t \in Threads : threads[t].result # NoneObj => Complete(threads[t].result)
    /\ installed_agents_cache = NoneObj
          => /\ written.snapshot = NoneObj
             /\ \A t \in Threads : threads[t].result = NoneObj

\* C30: in every interleaving of concurrent check_installed_agents calls,
\* with probes that fail and a PATH that changes between the probes of one
\* refresh, the stored snapshot is absent (only until the first refresh
\* stores one) or has exactly one boolean entry for every provider, every
\* mapping returned to a caller has one too, and a stored snapshot never
\* becomes absent again.
C30_SnapshotAbsentOrComplete ==
    /\ []SnapshotsWhole
    /\ [][installed_agents_cache # NoneObj => installed_agents_cache' # NoneObj]_vars

\* one thread is in the middle of its probes with some entries in its own
\* dict, one of them of a failed probe, while the stored snapshot and the
\* mapping the other thread received are complete
C30_Witness ==
    \E t \in Threads, u \in Threads :
        /\ threads[t].pc = "probe"
        /\ DOMAIN SoFar(t) \notin {{}, Agents}
        /\ on_path["codex"] = "error" /\ ~SoFar(t)["codex"]
        /\ Complete(installed_agents_cache)
        /\ threads[u].result # NoneObj
        /\ Complete(threads[u].result)
        /\ threads[u].result # installed_agents_cache

====
